---- MODULE Spec2Model ----
(***************************************************************************)
(* A model of the surfa 0.0.8 geometry core: the Affine transform class    *)
(* (transform/affine.py) and the geometry-aware array operations of        *)
(* FramedImage (image/framed.py).                                          *)
(*                                                                         *)
(* Matrices are sequences of rows of integers.  All arithmetic is exact:   *)
(* the inputs are drawn from sets on which the floating point code         *)
(* computes exactly representable values (integer matrices whose inverses  *)
(* are integer matrices).                                                  *)
(***************************************************************************)
EXTENDS Integers, Sequences, FiniteSets, TLC

VARIABLES
    affs,     \* the Affine objects, by object id
    bufs,     \* the numpy arrays holding their matrices, by array id
    ret,      \* what the last call did: operation, receiver, outcome
    img,      \* the image the FramedImage methods are called on
    disk,     \* the file at the path the codec is given
    label     \* the LabelElement the color and name setters are called on

vars == <<affs, bufs, ret, img, disk, label>>

(***************************************************************************)
(* The Affine objects in play: an Affine and one other (a copy of it, the  *)
(* result of a call on it, or an unrelated one).  There is one array more  *)
(* than there are objects, so that a fresh array always exists.            *)
(***************************************************************************)
ObjIds == {1, 2}
BufIds == {1, 2, 3}

(***************************************************************************)
(* Matrix and vector arithmetic (numpy).                                   *)
(***************************************************************************)
Rows(m) == Len(m)
Cols(m) == IF Len(m) = 0 THEN 0 ELSE Len(m[1])
Shape(m) == <<Rows(m), Cols(m)>>

Eye(n) == [i \in 1..n |-> [j \in 1..n |-> IF i = j THEN 1 ELSE 0]]

RECURSIVE SumTo(_, _)
SumTo(f, n) == IF n = 0 THEN 0 ELSE f[n] + SumTo(f, n - 1)

\* np.matmul of an (r, k) and a (k, c) matrix
MatMul(a, b) ==
    [i \in 1..Rows(a) |-> [j \in 1..Cols(b) |->
        SumTo([k \in 1..Cols(a) |-> a[i][k] * b[k][j]], Cols(a))]]

\* the matrix without row i and column j
Minor(m, i, j) ==
    [r \in 1..(Rows(m) - 1) |-> [c \in 1..(Cols(m) - 1) |->
        m[IF r < i THEN r ELSE r + 1][IF c < j THEN c ELSE c + 1]]]

RECURSIVE Det(_)
Det(m) ==
    IF Rows(m) = 1 THEN m[1][1]
    ELSE SumTo([j \in 1..Cols(m) |->
                  (IF j % 2 = 1 THEN 1 ELSE -1) * m[1][j] * Det(Minor(m, 1, j))],
               Cols(m))

Cofactor(m, i, j) == (IF (i + j) % 2 = 0 THEN 1 ELSE -1) * Det(Minor(m, i, j))

Adjugate(m) == [i \in 1..Rows(m) |-> [j \in 1..Cols(m) |-> Cofactor(m, j, i)]]

Abs(x) == IF x < 0 THEN -x ELSE x

Sign(x) == IF x < 0 THEN -1 ELSE IF x > 0 THEN 1 ELSE 0

\* whether the inverse of an integer matrix is an integer matrix
HasExactInverse(m) ==
    LET d == Det(m)
        adj == Adjugate(m)
    IN  /\ d # 0
        /\ \A i \in 1..Rows(m), j \in 1..Cols(m) : adj[i][j] % Abs(d) = 0

\* np.linalg.inv, on a matrix with HasExactInverse
LinalgInv(m) ==
    LET d == Det(m)
        adj == Adjugate(m)
    IN  [i \in 1..Rows(m) |-> [j \in 1..Cols(m) |-> (Sign(d) * adj[i][j]) \div Abs(d)]]

(***************************************************************************)
(* Image geometries and coordinate spaces, as far as Affine needs them.    *)
(* None is a record of the same type with set = FALSE.                     *)
(***************************************************************************)
NoGeom == [set |-> FALSE, shape |-> <<>>, voxsize |-> <<>>, rotation |-> <<>>, center2 |-> <<>>]

\* no file is at the path; otherwise its content is the sequence of the
\* chunks written to it
NoFile == [exists |-> FALSE, content |-> <<>>]

\* no LabelElement is constructed
NoLabel == [set |-> FALSE, name |-> <<>>, color |-> <<>>]

\* no image is in play
NoImage == [set |-> FALSE, basedim |-> 0, shape |-> <<>>, nframes |-> 0,
            data |-> <<>>, geom |-> NoGeom]

NoSpace == "none"

NoMatrix == <<>>


(***************************************************************************)
(* The heap.  An Affine object refers to the numpy array holding its       *)
(* matrix; the writeable flag lives on that array (matrix.flags.writeable).*)
(* origin and via are ghost fields: the object this one was made from (0   *)
(* if none) and the call that made it.                                     *)
(***************************************************************************)
FreeObj ==
    [alloc |-> FALSE, buf |-> 0, space |-> NoSpace, source |-> NoGeom,
     target |-> NoGeom, origin |-> 0, via |-> ""]

FreeBuf == [m |-> NoMatrix, w |-> TRUE]

Allocated == {a \in ObjIds : affs[a].alloc}

Referenced(b) == \E a \in ObjIds : affs[a].alloc /\ affs[a].buf = b

\* the id the next object gets
NewObj == CHOOSE o \in ObjIds : ~affs[o].alloc /\ \A p \in ObjIds : p < o => affs[p].alloc

HasRoom == \E o \in ObjIds : ~affs[o].alloc

\* the id the next array gets
FreshBuf == CHOOSE b \in BufIds : ~Referenced(b) /\ \A c \in BufIds : c < b => Referenced(c)

\* the array a matrix assignment to object a creates: the old one is dropped
\* unless another object still refers to it
NewBufFor(a) ==
    IF \E p \in ObjIds : p # a /\ affs[p].alloc /\ affs[p].buf = affs[a].buf
    THEN FreshBuf ELSE affs[a].buf

matrix(a) == bufs[affs[a].buf].m

writeable(a) == bufs[affs[a].buf].w

ndim(a) == Cols(matrix(a)) - 1

\* the four attributes of an Affine, and its flag, in the heap (objs, arrays)
AttrsIn(objs, arrays, a) ==
    [matrix |-> arrays[objs[a].buf].m, space |-> objs[a].space,
     source |-> objs[a].source, target |-> objs[a].target]

WriteableIn(objs, arrays, a) == arrays[objs[a].buf].w

Attrs(a) == AttrsIn(affs, bufs, a)

NoArg == <<>>

\* a call's outcome: whether it returned or raised, the object it returned
\* (0 if none was kept) and its argument
Call(op, self, ok, err, obj, arg) ==
    [op |-> op, self |-> self, ok |-> ok, err |-> err, obj |-> obj, arg |-> arg,
     val |-> NoArg]

\* a call that returned the Affine with attributes val
Returned(op, self, obj, arg, val) ==
    [op |-> op, self |-> self, ok |-> TRUE, err |-> "", obj |-> obj, arg |-> arg,
     val |-> val]

(***************************************************************************)
(* The matrix setter, affine.py 67-84.                                     *)
(***************************************************************************)
\* numpy's rule for dst[...] = src: each axis of src has the length of the
\* target's or 1
Broadcastable(srcshape, dstshape) ==
    /\ Len(srcshape) = Len(dstshape)
    /\ \A k \in 1..Len(dstshape) : srcshape[k] = dstshape[k] \/ srcshape[k] = 1

\* square[:stop, :] = mat
AssignRows(square, stop, mat) ==
    LET n == Rows(square)
        top == IF stop < n THEN stop ELSE n
    IN  IF Broadcastable(Shape(mat), <<top, Cols(square)>>)
        THEN [ok |-> TRUE,
              m |-> [i \in 1..n |-> [j \in 1..Cols(square) |->
                       IF i <= top
                       THEN mat[IF Rows(mat) = 1 THEN 1 ELSE i][IF Cols(mat) = 1 THEN 1 ELSE j]
                       ELSE square[i][j]]]]
        ELSE [ok |-> FALSE, m |-> NoMatrix]

\* the shapes the setter's check lets through: (N, N+1) and (N+1, N+1), N in {2, 3}
ShapeAccepted(mat) ==
    LET nd == Cols(mat) - 1
    IN  nd \in {2, 3} /\ Rows(mat) \in {nd, nd + 1}

\* _check_writeability then the shape check then the padding;
\* hasMatrix is "self.matrix is not None"
MatrixSetter(hasMatrix, isWriteable, mat) ==
    IF hasMatrix /\ ~isWriteable
    THEN [ok |-> FALSE, err |-> "read-only", m |-> NoMatrix]
    ELSE IF ~ShapeAccepted(mat)
    THEN [ok |-> FALSE, err |-> "shape", m |-> NoMatrix]
    ELSE LET square == Eye(Cols(mat))
             asg == AssignRows(square, Rows(square), mat)
         IN  IF asg.ok
             THEN [ok |-> TRUE, err |-> "", m |-> asg.m]
             ELSE [ok |-> FALSE, err |-> "broadcast", m |-> NoMatrix]

\* Affine._check_writeability
CheckWriteability(a) == writeable(a)

(***************************************************************************)
(* Affine.__init__: the matrix setter, then the space, source and target   *)
(* setters on the fresh (writeable) matrix.  A failed setter leaves no     *)
(* object behind.                                                          *)
(***************************************************************************)
Construct(mat, src, tgt, spc) ==
    LET out == MatrixSetter(FALSE, TRUE, mat)
        o == NewObj
        b == FreshBuf
    IN  /\ HasRoom
        /\ IF out.ok
           THEN /\ affs' = [affs EXCEPT ![o] =
                        [alloc |-> TRUE, buf |-> b, space |-> spc, source |-> src,
                         target |-> tgt, origin |-> 0, via |-> "init"]]
                /\ bufs' = [bufs EXCEPT ![b] = [m |-> out.m, w |-> TRUE]]
                /\ UNCHANGED <<img, disk, label>>
                /\ ret' = Call("init", 0, TRUE, "", o, mat)
           ELSE /\ UNCHANGED <<affs, bufs, disk, label>>
                /\ UNCHANGED <<img, disk, label>>
                /\ ret' = Call("init", 0, FALSE, out.err, 0, mat)

\* a.matrix = mat
SetMatrix(a, mat) ==
    LET out == MatrixSetter(TRUE, CheckWriteability(a), mat)
        b == NewBufFor(a)
    IN  /\ affs[a].alloc
        /\ IF out.ok
           THEN /\ affs' = [affs EXCEPT ![a].buf = b]
                /\ bufs' = [bufs EXCEPT ![b] = [m |-> out.m, w |-> TRUE]]
                /\ UNCHANGED <<img, disk, label>>
                /\ ret' = Call("set_matrix", a, TRUE, "", 0, mat)
           ELSE /\ UNCHANGED <<affs, bufs, disk, label>>
                /\ UNCHANGED <<img, disk, label>>
                /\ ret' = Call("set_matrix", a, FALSE, out.err, 0, mat)

SetSpaceNoCheck(a, value) ==
    /\ affs[a].alloc
    /\ affs' = [affs EXCEPT ![a].space = value]
    /\ UNCHANGED <<img, disk, label>>
    /\ ret' = Call("set_space", a, TRUE, "", 0, value)
    /\ UNCHANGED bufs

\* a.space = value
SetSpace(a, value) ==
    /\ affs[a].alloc
    /\ IF CheckWriteability(a)
       THEN /\ affs' = [affs EXCEPT ![a].space = value]
            /\ UNCHANGED <<img, disk, label>>
            /\ ret' = Call("set_space", a, TRUE, "", 0, value)
       ELSE /\ UNCHANGED affs
            /\ UNCHANGED <<img, disk, label>>
            /\ ret' = Call("set_space", a, FALSE, "read-only", 0, value)
    /\ UNCHANGED bufs

\* a.source = value
SetSource(a, value) ==
    /\ affs[a].alloc
    /\ IF CheckWriteability(a)
       THEN /\ affs' = [affs EXCEPT ![a].source = value]
            /\ UNCHANGED <<img, disk, label>>
            /\ ret' = Call("set_source", a, TRUE, "", 0, value)
       ELSE /\ UNCHANGED affs
            /\ UNCHANGED <<img, disk, label>>
            /\ ret' = Call("set_source", a, FALSE, "read-only", 0, value)
    /\ UNCHANGED bufs

\* a.target = value
SetTarget(a, value) ==
    /\ affs[a].alloc
    /\ IF CheckWriteability(a)
       THEN /\ affs' = [affs EXCEPT ![a].target = value]
            /\ UNCHANGED <<img, disk, label>>
            /\ ret' = Call("set_target", a, TRUE, "", 0, value)
       ELSE /\ UNCHANGED affs
            /\ UNCHANGED <<img, disk, label>>
            /\ ret' = Call("set_target", a, FALSE, "read-only", 0, value)
    /\ UNCHANGED bufs

\* a._writeable = False, as an owner of a derived affine does
MarkReadOnly(a) ==
    /\ affs[a].alloc
    /\ writeable(a)
    /\ bufs' = [bufs EXCEPT ![affs[a].buf].w = FALSE]
    /\ UNCHANGED <<img, disk, label>>
    /\ ret' = Call("mark_read_only", a, TRUE, "", 0, NoArg)
    /\ UNCHANGED affs

\* a.copy(): copy.deepcopy(self), then the copy's matrix is made writeable
Copy(a) ==
    LET o == NewObj
        b == FreshBuf
    IN  /\ affs[a].alloc
        /\ HasRoom
        /\ affs' = [affs EXCEPT ![o] = [affs[a] EXCEPT !.buf = b, !.origin = a, !.via = "copy"]]
        /\ bufs' = [bufs EXCEPT ![b] = [m |-> matrix(a), w |-> TRUE]]
        /\ UNCHANGED <<img, disk, label>>
        /\ ret' = Call("copy", a, TRUE, "", o, NoArg)


(***************************************************************************)
(* Inputs.                                                                 *)
(***************************************************************************)
IdRot == Eye(3)

\* a geometry of shape 2x2x2, unit voxels, centred at the origin
G1 == [set |-> TRUE, shape |-> <<2, 2, 2>>, voxsize |-> <<1, 1, 1>>,
       rotation |-> IdRot, center2 |-> <<0, 0, 0>>]

\* a geometry of shape 2x4x2 whose first two voxel axes are swapped and the
\* first one flipped, centred at (1, 0, 2)
G2 == [set |-> TRUE, shape |-> <<2, 4, 2>>, voxsize |-> <<1, 1, 1>>,
       rotation |-> <<<<0, 1, 0>>, <<-1, 0, 0>>, <<0, 0, 1>>>>,
       center2 |-> <<2, 0, 4>>]

M34 == <<<<1, 0, 0, 1>>, <<0, 1, 0, 2>>, <<0, 0, 1, 3>>>>
M44 == <<<<1, 0, 0, 1>>, <<0, 1, 0, 2>>, <<0, 0, 1, 3>>, <<0, 0, 0, 1>>>>
\* a full matrix whose last row is not [0, 0, 0, 1]
M44x == <<<<1, 0, 0, 1>>, <<0, 1, 0, 2>>, <<0, 0, 1, 3>>, <<0, 0, 1, 1>>>>
M23 == <<<<0, -1, 2>>, <<1, 0, 1>>>>
M33 == <<<<0, -1, 2>>, <<1, 0, 1>>, <<0, 0, 1>>>>
\* shapes the setter rejects
M22 == <<<<1, 0>>, <<0, 1>>>>
M24 == <<<<1, 0, 0, 1>>, <<0, 1, 0, 2>>>>

SetterMatrices == {M34, M44, M44x, M23, M33, M22, M24}

SetterSpaces == {NoSpace, "world"}

SetterGeoms == {NoGeom, G1}

(***************************************************************************)
(* SpecAffine: construction, the four setters, the read-only flag, copy.   *)
(***************************************************************************)
InitAffine ==
    /\ disk = NoFile
    /\ label = NoLabel
    /\ affs = [a \in ObjIds |-> FreeObj]
    /\ bufs = [b \in BufIds |-> FreeBuf]
    /\ img = NoImage
    /\ ret = Call("none", 0, TRUE, "", 0, NoArg)

NextAffine ==
    \/ \E mat \in SetterMatrices, src \in SetterGeoms, tgt \in SetterGeoms,
          spc \in SetterSpaces : Construct(mat, src, tgt, spc)
    \/ \E a \in ObjIds, mat \in SetterMatrices : SetMatrix(a, mat)
    \/ \E a \in ObjIds, v \in SetterSpaces : SetSpace(a, v)
    \/ \E a \in ObjIds, g \in SetterGeoms : SetSource(a, g)
    \/ \E a \in ObjIds, g \in SetterGeoms : SetTarget(a, g)
    \/ \E a \in ObjIds : MarkReadOnly(a)
    \/ \E a \in ObjIds : Copy(a)

SpecAffine == InitAffine /\ [][NextAffine]_vars


(***************************************************************************)
(* Inversion and composition, affine.py 155-163 and 192-202.  Both build   *)
(* their result with the constructor.  The result is kept as an object     *)
(* when there is room for one and is otherwise a temporary, whose          *)
(* attributes the call's outcome records.                                  *)
(***************************************************************************)
\* Affine(mat, source=src, target=tgt, space=spc) as a value, for a matrix the
\* setter accepts
NewAffine(mat, src, tgt, spc) ==
    [matrix |-> MatrixSetter(FALSE, TRUE, mat).m, space |-> spc, source |-> src,
     target |-> tgt]

InvKeepsDirection(x) ==
    NewAffine(LinalgInv(x.matrix), x.source, x.target, x.space)

\* x.inv() for the Affine with attributes x
InvOf(x) ==
    NewAffine(LinalgInv(x.matrix), x.target, x.source, x.space)

\* x @ y
MatMulOf(x, y) ==
    NewAffine(MatMul(x.matrix, y.matrix), NoGeom, NoGeom, NoSpace)

\* keep the returned Affine val as an object if there is room
Keep(val, from, how) ==
    IF HasRoom
    THEN /\ affs' = [affs EXCEPT ![NewObj] =
                 [alloc |-> TRUE, buf |-> FreshBuf, space |-> val.space,
                  source |-> val.source, target |-> val.target, origin |-> from,
                  via |-> how]]
         /\ bufs' = [bufs EXCEPT ![FreshBuf] = [m |-> val.matrix, w |-> TRUE]]
    ELSE UNCHANGED <<affs, bufs, disk, label>>

Kept == IF HasRoom THEN NewObj ELSE 0

\* a.inv(); np.linalg.inv raises LinAlgError on a singular matrix
Inv(a) ==
    /\ affs[a].alloc
    /\ \/ /\ Det(matrix(a)) = 0
          /\ UNCHANGED <<img, disk, label>>
          /\ ret' = Call("inv", a, FALSE, "singular", 0, NoArg)
          /\ UNCHANGED <<affs, bufs, disk, label>>
       \/ /\ HasExactInverse(matrix(a))
          /\ UNCHANGED <<img, disk, label>>
          /\ ret' = Returned("inv", a, Kept, NoArg, InvOf(Attrs(a)))
          /\ Keep(InvOf(Attrs(a)), a, "inv")

\* a @ b
MatMulCall(a, b) ==
    /\ affs[a].alloc /\ affs[b].alloc
    /\ \/ /\ ndim(a) # ndim(b)
          /\ UNCHANGED <<img, disk, label>>
          /\ ret' = Call("matmul", a, FALSE, "ndim", 0, b)
          /\ UNCHANGED <<affs, bufs, disk, label>>
       \/ /\ ndim(a) = ndim(b)
          /\ UNCHANGED <<img, disk, label>>
          /\ ret' = Returned("matmul", a, Kept, b, MatMulOf(Attrs(a), Attrs(b)))
          /\ Keep(MatMulOf(Attrs(a), Attrs(b)), a, "matmul")

\* a quarter turn about the third axis with a translation
R44 == <<<<0, -1, 0, 2>>, <<1, 0, 0, 0>>, <<0, 0, 1, -1>>, <<0, 0, 0, 1>>>>
\* a shear with a translation
S44 == <<<<1, 1, 0, 0>>, <<0, 1, 2, 1>>, <<0, 0, 1, 0>>, <<0, 0, 0, 1>>>>
\* a matrix without an inverse
Z44 == <<<<1, 1, 0, 0>>, <<1, 1, 0, 0>>, <<0, 0, 1, 0>>, <<0, 0, 0, 1>>>>
S33 == <<<<1, 1, 0>>, <<0, -1, 3>>, <<0, 0, 1>>>>

AlgebraMatrices == {M44, R44, S44, Z44, M33, S33}

AlgebraContexts ==
    {<<NoGeom, NoGeom, NoSpace>>, <<G1, G2, "world">>, <<G2, NoGeom, "voxel">>}

(***************************************************************************)
(* SpecAlgebra: construction, inversion, composition.                      *)
(***************************************************************************)
NextAlgebra ==
    \/ \E mat \in AlgebraMatrices, c \in AlgebraContexts :
          Construct(mat, c[1], c[2], c[3])
    \/ \E a \in ObjIds : Inv(a)
    \/ \E a \in ObjIds, b \in ObjIds : MatMulCall(a, b)

SpecAlgebra == InitAffine /\ [][NextAlgebra]_vars

(***************************************************************************)
(* Image geometries: the voxel-to-world affine of a geometry is built from *)
(* rotation * diag(voxsize) and the translation that maps the middle of    *)
(* the volume, shape / 2, to the center.  Coordinates that may be half     *)
(* integers are kept doubled (center2, Trans2).                            *)
(***************************************************************************)
\* pad_vector_length(v, n, fill)
Pad(v, n, fill) == [i \in 1..n |-> IF i <= Len(v) THEN v[i] ELSE fill]

Lin(g) == [i \in 1..3 |-> [j \in 1..3 |-> g.rotation[i][j] * g.voxsize[j]]]

\* twice the translation of vox2world
Trans2(g) ==
    LET lin == Lin(g)
        shape == Pad(g.shape, 3, 1)
    IN  [i \in 1..3 |->
            g.center2[i] - (lin[i][1] * shape[1] + lin[i][2] * shape[2] + lin[i][3] * shape[3])]

\* geom.vox2world.matrix, for a geometry whose translation is integral
Vox2World(g) ==
    [i \in 1..4 |-> [j \in 1..4 |->
        IF i = 4 THEN (IF j = 4 THEN 1 ELSE 0)
        ELSE IF j = 4 THEN Trans2(g)[i] \div 2
        ELSE Lin(g)[i][j]]]

\* geom.affine(from, to).matrix between the voxel and world spaces
GeomAffine(g, from, to) ==
    IF from = to THEN Eye(4)
    ELSE IF from = "voxel" THEN Vox2World(g)
    ELSE LinalgInv(Vox2World(g))

\* image_geometry_equal
ImageGeometryEqual(g, h) == g = h

(***************************************************************************)
(* Affine.convert, affine.py 250-315.  A request names a source, a target  *)
(* and a space, each possibly None, and the copy flag.                     *)
(***************************************************************************)
\* lines 274-276: what is not given defaults to the transform's own
Requested(x, req) ==
    [source |-> IF req.source = NoGeom THEN x.source ELSE req.source,
     target |-> IF req.target = NoGeom THEN x.target ELSE req.target,
     space |-> IF req.space = NoSpace THEN x.space ELSE req.space]

SameRequestIgnoresSpace(x, r) ==
    /\ ImageGeometryEqual(r.source, x.source)
    /\ ImageGeometryEqual(r.target, x.target)

\* lines 278-283: all((same_space, same_source, same_target))
SameRequest(x, r) ==
    /\ r.space = x.space
    /\ ImageGeometryEqual(r.source, x.source)
    /\ ImageGeometryEqual(r.target, x.target)

\* line 287
MissingContext(x) == x.source = NoGeom \/ x.target = NoGeom \/ x.space = NoSpace

SandwichSwapped(a, m, b) == MatMul(MatMul(b, m), a)

\* a @ m @ b
Sandwich(a, m, b) == MatMul(MatMul(a, m), b)

\* lines 291-310: the converted matrix of a transform with full context
ConvertedMatrix(x, r) ==
    IF ImageGeometryEqual(r.source, x.source) /\ ImageGeometryEqual(r.target, x.target)
    THEN Sandwich(GeomAffine(x.target, x.space, r.space), x.matrix,
                  GeomAffine(x.source, r.space, x.space))
    ELSE LET world ==
                 IF x.space = "world" THEN x.matrix
                 ELSE Sandwich(GeomAffine(x.target, x.space, "world"), x.matrix,
                               GeomAffine(x.source, "world", x.space))
         IN  IF r.space # "world"
             THEN Sandwich(GeomAffine(r.target, "world", r.space), world,
                           GeomAffine(r.source, r.space, "world"))
             ELSE world

\* whether the conversion multiplies the transform with a geometry's affine,
\* which __matmul__ refuses unless the transform is 3D as well
MultipliesGeometry(x, r) ==
    \/ ImageGeometryEqual(r.source, x.source) /\ ImageGeometryEqual(r.target, x.target)
    \/ x.space # "world"
    \/ r.space # "world"

ConvertOutcome(x, req) ==
    LET r == Requested(x, req)
    IN  IF SameRequest(x, r)
        THEN [kind |-> IF req.copy THEN "copy" ELSE "self", err |-> "", val |-> x]
        ELSE IF MissingContext(x)
        THEN [kind |-> "error", err |-> "context", val |-> NoArg]
        ELSE IF MultipliesGeometry(x, r) /\ Cols(x.matrix) # 4
        THEN [kind |-> "error", err |-> "ndim", val |-> NoArg]
        ELSE [kind |-> "new", err |-> "",
              val |-> NewAffine(ConvertedMatrix(x, r), r.source, r.target, r.space)]

\* a.convert(source, target, space, copy); a new object it returns is held by
\* the caller only (obj = 0)
Convert(a, req) ==
    LET out == ConvertOutcome(Attrs(a), req)
    IN  /\ affs[a].alloc
        /\ UNCHANGED <<img, disk, label>>
        /\ ret' = IF out.kind = "error"
                  THEN Call("convert", a, FALSE, out.err, 0, req)
                  ELSE Returned("convert", a, IF out.kind = "self" THEN a ELSE 0,
                                req, out.val)
        /\ UNCHANGED <<affs, bufs, disk, label>>

ConvertMatrices == {R44, S44, M33}

ConvertContexts ==
    {<<G1, G2, "voxel">>, <<G2, G1, "world">>, <<NoGeom, G2, "voxel">>,
     <<G1, NoGeom, "world">>, <<G1, G2, NoSpace>>, <<NoGeom, NoGeom, NoSpace>>}

ConvertRequests ==
    [source : {NoGeom, G1, G2}, target : {NoGeom, G1, G2},
     space : {NoSpace, "voxel", "world"}, copy : BOOLEAN]

(***************************************************************************)
(* SpecConvert: one Affine, constructed from the inputs, and convert.      *)
(***************************************************************************)
\* the state after a = Affine(mat, source=c[1], target=c[2], space=c[3]) for
\* some mat of mats and some c of ctxs
InitOne(mats, ctxs) ==
    \E mat \in mats, c \in ctxs :
        /\ disk = NoFile
    /\ label = NoLabel
        /\ affs = [a \in ObjIds |->
                     IF a = 1
                     THEN [alloc |-> TRUE, buf |-> 1, space |-> c[3], source |-> c[1],
                           target |-> c[2], origin |-> 0, via |-> "init"]
                     ELSE FreeObj]
        /\ bufs = [b \in BufIds |->
                     IF b = 1 THEN [m |-> MatrixSetter(FALSE, TRUE, mat).m, w |-> TRUE]
                     ELSE FreeBuf]
        /\ img = NoImage
        /\ ret = Call("init", 0, TRUE, "", 1, mat)

InitConvert == InitOne(ConvertMatrices, ConvertContexts)

NextConvert == \E a \in ObjIds, req \in ConvertRequests : Convert(a, req)

SpecConvert == InitConvert /\ [][NextConvert]_vars

(***************************************************************************)
(* Affine.transform, affine.py 172-190.  An array of points is 1-D (one    *)
(* point, v its coordinates) or 2-D (v its rows).                          *)
(***************************************************************************)
MaxK == 2

Vec(v) == [nd |-> 1, v |-> v]

Mat(rows) == [nd |-> 2, v |-> rows]

\* arr.shape
ArrShape(arr) == IF arr.nd = 1 THEN <<Len(arr.v)>> ELSE Shape(arr.v)

\* points[np.newaxis] of a 1-D array
NewAxis(arr) == Mat(<<arr.v>>)

\* np.c_[points, np.ones(points.shape[0])]
AppendOnes(arr) == Mat([k \in 1..Rows(arr.v) |-> Append(arr.v[k], 1)])

\* arr.T of a 2-D array
Transpose(arr) ==
    Mat([j \in 1..Cols(arr.v) |-> [i \in 1..Rows(arr.v) |-> arr.v[i][j]]])

\* arr.squeeze() of a 2-D array that has more than one element: every axis of
\* length 1 is removed
Squeeze(arr) ==
    IF Rows(arr.v) = 1 THEN Vec(arr.v[1])
    ELSE IF Cols(arr.v) = 1 THEN Vec([i \in 1..Rows(arr.v) |-> arr.v[i][1]])
    ELSE arr

\* arr[..., :-1]
DropLast(arr) ==
    IF arr.nd = 1 THEN Vec(SubSeq(arr.v, 1, Len(arr.v) - 1))
    ELSE Mat([i \in 1..Rows(arr.v) |-> SubSeq(arr.v[i], 1, Len(arr.v[i]) - 1)])

\* the value transform returns for a matrix m and points whose length fits it
TransformOf(m, points) ==
    LET two == IF points.nd = 1 THEN NewAxis(points) ELSE points
        cols == Transpose(AppendOnes(two))
        dot == Mat(MatMul(m, cols.v))
    IN  DropLast(Squeeze(Transpose(dot)))

\* a.transform(points); np.dot raises ValueError when the shapes do not fit
Transform(a, points) ==
    LET n == ArrShape(points)[Len(ArrShape(points))]
    IN  /\ affs[a].alloc
        /\ UNCHANGED <<img, disk, label>>
        /\ ret' = IF n + 1 # Cols(matrix(a))
                  THEN Call("transform", a, FALSE, "shape", 0, points)
                  ELSE Returned("transform", a, 0, points, TransformOf(matrix(a), points))
        /\ UNCHANGED <<affs, bufs, disk, label>>

Coords == {0, 1}

PointsOf(n) == [1..n -> Coords]

\* single points and stacks of 1..MaxK points, 2D and 3D
PointInputs ==
    UNION {{Vec(p) : p \in PointsOf(n)} \cup
           UNION {{Mat(rows) : rows \in [1..k -> PointsOf(n)]} : k \in 1..MaxK}
           : n \in {2, 3}}

PointMatrices == {R44, S33, M33}

(***************************************************************************)
(* SpecPoints: one Affine and transform.                                   *)
(***************************************************************************)
InitPoints == InitOne(PointMatrices, {<<NoGeom, NoGeom, NoSpace>>})

NextPoints == \E a \in ObjIds, points \in PointInputs : Transform(a, points)

SpecPoints == InitPoints /\ [][NextPoints]_vars

(***************************************************************************)
(* FramedImage: an image has basedim spatial axes (2 for a Slice, 3 for a  *)
(* Volume), a spatial shape, a number of frames and a geometry.  Its data  *)
(* map each voxel, a tuple of 0-based indices, to its values by frame.     *)
(***************************************************************************)
\* the voxels of an array of a shape of up to three axes
Voxels(shape) ==
    IF Len(shape) = 0 THEN {<<>>}
    ELSE IF Len(shape) = 1 THEN {<<i>> : i \in 0..(shape[1] - 1)}
    ELSE IF Len(shape) = 2 THEN (0..(shape[1] - 1)) \X (0..(shape[2] - 1))
    ELSE (0..(shape[1] - 1)) \X (0..(shape[2] - 1)) \X (0..(shape[3] - 1))

Image(shape, nframes, data, geom) ==
    [set |-> TRUE, basedim |-> Len(shape), shape |-> shape, nframes |-> nframes,
     data |-> data, geom |-> geom]

\* twice the world coordinate of voxel v: 2 * geom.vox2world.transform(v)
World2(g, v) ==
    LET lin == Lin(g)
        t == Trans2(g)
    IN  [i \in 1..3 |-> 2 * (lin[i][1] * v[1] + lin[i][2] * v[2] + lin[i][3] * v[3]) + t[i]]

(***************************************************************************)
(* FramedImage._crop, framed.py 105-190.  An index expression is given in  *)
(* the form sane_slicing returns it: one item per spatial axis, an int or  *)
(* a slice with explicit start, stop and step.                             *)
(***************************************************************************)
MaxStep == 2

At(i) == [int |-> TRUE, start |-> i, stop |-> i + 1, step |-> 1]

Slc(a, b, s) == [int |-> FALSE, start |-> a, stop |-> b, step |-> s]

\* slicing_parameters: the start and the step of every item
SlicingStart(ix) == [a \in 1..Len(ix) |-> ix[a].start]

SlicingStep(ix) == [a \in 1..Len(ix) |-> ix[a].step]

StepNotOne(step) == \E a \in 1..Len(step) : step[a] # 1

\* line 137: np.any(step < 1)
StepRejected(step) == \E a \in 1..Len(step) : step[a] < 1

\* the number of indices a slice with a positive step selects
SliceLen(x) == (x.stop - x.start + x.step - 1) \div x.step

\* line 148: cut_axes, and the axes that stay, in order
CutAxes(ix) == {a \in 1..Len(ix) : ix[a].int}

KeptAxes(ix) == SelectSeq([a \in 1..Len(ix) |-> a], LAMBDA a : ~ix[a].int)

\* cropped_data = self.data[index_expression]: its shape, and the voxel of
\* self.data that its voxel v comes from (pos[a] is the place axis a takes
\* among the axes that stay)
CroppedShape(ix) ==
    LET kept == KeptAxes(ix) IN [k \in 1..Len(kept) |-> SliceLen(ix[kept[k]])]

SourceVoxel(ix, pos, v) ==
    [a \in 1..Len(ix) |->
        IF ix[a].int THEN ix[a].start ELSE ix[a].start + ix[a].step * v[pos[a]]]

CroppedData(im, ix) ==
    LET pos == [a \in 1..Len(ix) |-> a - Cardinality({c \in CutAxes(ix) : c < a})]
    IN  [v \in Voxels(CroppedShape(ix)) |-> im.data[SourceVoxel(ix, pos, v)]]

\* np.insert(shape, at, 1), at a 1-based position
InsertOne(shape, at) ==
    [k \in 1..(Len(shape) + 1) |->
        IF k < at THEN shape[k] ELSE IF k = at THEN 1 ELSE shape[k - 1]]

AxisSwapFixed(cut) == <<1, 3, 2>>

\* lines 164-167: the order the axes of a 3D geometry take when axis cut is
\* removed ([1, 2, 0], [0, 2, 1] and no swap in the 0-based terms of the code)
AxisSwap(cut) == IF cut = 1 THEN <<2, 3, 1>> ELSE IF cut = 2 THEN <<1, 3, 2>> ELSE <<1, 2, 3>>

CropCenterUnshifted(g, start, step, inter) ==
    LET half2 == [j \in 1..3 |-> inter[j] * step[j]]
        lin == Lin(g)
        t == Trans2(g)
    IN  [i \in 1..3 |->
            lin[i][1] * half2[1] + lin[i][2] * half2[2] + lin[i][3] * half2[3] + t[i]]

\* lines 176-179, doubled: matrix[:3, 3] = vox2world.transform(start) and
\* world_center = matrix @ (inter_baseshape * step / 2, 1)
CropCenter2(g, start, step, inter) ==
    LET half2 == [j \in 1..3 |-> inter[j] * step[j]]
        lin == Lin(g)
        t == World2(g, start)
    IN  [i \in 1..3 |->
            lin[i][1] * half2[1] + lin[i][2] * half2[2] + lin[i][3] * half2[3] + t[i]]

\* lines 144-145 and 174-185: the geometry of the cropped image
CropGeometry(im, ix) ==
    LET g == im.geom
        start == Pad(SlicingStart(ix), 3, 0)
        step == Pad(SlicingStep(ix), 3, 1)
        cut == IF CutAxes(ix) = {} THEN 0 ELSE CHOOSE a \in CutAxes(ix) : TRUE
        swap == IF cut = 0 THEN <<1, 2, 3>> ELSE AxisSwap(cut)
        shape == CroppedShape(ix)
        inter == IF cut = 0 THEN Pad(shape, 3, 1) ELSE Pad(InsertOne(shape, cut), 3, 1)
    IN  [set |-> TRUE,
         shape |-> shape,
         voxsize |-> [k \in 1..3 |-> g.voxsize[swap[k]] * step[swap[k]]],
         rotation |-> [i \in 1..3 |-> [k \in 1..3 |-> g.rotation[i][swap[k]]]],
         center2 |-> CropCenter2(g, start, step, inter)]

\* lines 150-190: what _crop returns when it does not raise
CropResult(im, ix) ==
    LET cuts == Cardinality(CutAxes(ix))
        shape == CroppedShape(ix)
    IN  IF (im.basedim = 2 /\ cuts > 0) \/ (im.basedim = 3 /\ cuts > 1)
        THEN [kind |-> "ndarray", shape |-> shape, nframes |-> im.nframes,
              data |-> CroppedData(im, ix), geom |-> NoGeom]
        ELSE [kind |-> IF Len(shape) = 2 THEN "Slice" ELSE "Volume",
              shape |-> shape, nframes |-> im.nframes,
              data |-> CroppedData(im, ix), geom |-> CropGeometry(im, ix)]

\* image[ix]
Crop(ix) ==
    /\ img.set
    /\ UNCHANGED <<img, disk, label>>
    /\ ret' = IF StepRejected(SlicingStep(ix))
              THEN Call("crop", 0, FALSE, "NotImplementedError", 0, ix)
              ELSE Returned("crop", 0, 0, ix, CropResult(img, ix))
    /\ UNCHANGED <<affs, bufs, disk, label>>

\* the items that index an axis of length n: every int, every non-empty
\* slice of step 1, the slices [::s] of a step s in 2..MaxStep, and the
\* reversal [::-1]
Items(n) ==
    {At(i) : i \in 0..(n - 1)} \cup
    {Slc(x[1], x[2], 1) : x \in {y \in (0..(n - 1)) \X (1..n) : y[1] < y[2]}} \cup
    {Slc(0, n, s) : s \in 2..MaxStep} \cup
    {Slc(n - 1, -1, -1)}

IndexExpressions(shape) ==
    IF Len(shape) = 2
    THEN {<<x, y>> : x \in Items(shape[1]), y \in Items(shape[2])}
    ELSE {<<x, y, z>> : x \in Items(shape[1]), y \in Items(shape[2]), z \in Items(shape[3])}

\* data in which every voxel holds a value of its own
Coded(shape) ==
    [v \in Voxels(shape) |->
        <<1 + SumTo([a \in 1..Len(shape) |-> v[a] * (10 ^ (a - 1))], Len(shape))>>]

\* all zero but for voxel (1, 1, 1) = 5
OneHot(shape) ==
    [v \in Voxels(shape) |-> IF v = <<1, 1, 1>> THEN <<5>> ELSE <<0>>]

Geom(shape, voxsize, rotation, center2) ==
    [set |-> TRUE, shape |-> shape, voxsize |-> voxsize, rotation |-> rotation,
     center2 |-> center2]

\* the 4x4x4 volume with unit voxels, identity rotation and center (0, 0, 0)
Scenario == Image(<<4, 4, 4>>, 1, OneHot(<<4, 4, 4>>),
                  Geom(<<4, 4, 4>>, <<1, 1, 1>>, IdRot, <<0, 0, 0>>))

\* a volume with anisotropic voxels and a rotation that permutes and flips axes
Oblique == Image(<<3, 2, 2>>, 1, Coded(<<3, 2, 2>>),
                 Geom(<<3, 2, 2>>, <<1, 2, 3>>,
                      <<<<0, 1, 0>>, <<-1, 0, 0>>, <<0, 0, 1>>>>, <<2, 0, 3>>))

\* a 2D image
Flat == Image(<<3, 2>>, 1, Coded(<<3, 2>>),
              Geom(<<3, 2>>, <<2, 1, 1>>, IdRot, <<0, 0, 0>>))

CropImages == {Scenario, Oblique, Flat}

\* the index expressions an image is cropped by: every one, but for the
\* 4x4x4 volume those that index its three axes alike
CropInputs(im) ==
    IF im.shape = <<4, 4, 4>> THEN {[a \in 1..3 |-> x] : x \in Items(4)}
    ELSE IndexExpressions(im.shape)

(***************************************************************************)
(* SpecCrop: one image, cropped by index expressions.                      *)
(***************************************************************************)
InitCrop ==
    /\ img \in CropImages
    /\ disk = NoFile
    /\ label = NoLabel
    /\ affs = [a \in ObjIds |-> FreeObj]
    /\ bufs = [b \in BufIds |-> FreeBuf]
    /\ ret = Call("none", 0, TRUE, "", 0, NoArg)

NextCrop == \E ix \in CropInputs(img) : Crop(ix)

SpecCrop == InitCrop /\ [][NextCrop]_vars

(***************************************************************************)
(* FramedImage.bbox, framed.py 192-222.  A margin is None, or a scalar or  *)
(* a sequence of integers or of floats; a bounding box is one slice per    *)
(* spatial axis.                                                           *)
(***************************************************************************)
MaxMargin == 2

MaxNonzero == 2

Max(a, b) == IF a >= b THEN a ELSE b

Min(a, b) == IF a <= b THEN a ELSE b

\* self.max(frames=True).data: the largest value of every voxel over the frames
MaxOverFrames(im) ==
    [v \in Voxels(im.shape) |->
        CHOOSE x \in {im.data[v][f] : f \in 1..im.nframes} :
            \A f \in 1..im.nframes : im.data[v][f] <= x]

NonZero(x) == x # 0

\* line 208: > 0
Positive(x) == x > 0

\* the voxels where mask is True
Mask(im) ==
    LET max == MaxOverFrames(im) IN {v \in Voxels(im.shape) : Positive(max[v])}

\* line 210: tuple([slice(0, s) for s in mask.shape])
FullExtent(im) == [a \in 1..im.basedim |-> [start |-> 0, stop |-> im.shape[a]]]

\* lines 211-212: scipy's find_objects(mask)[0], the smallest box that holds
\* the voxels of a mask that is not empty
FindObjects(mask, n) ==
    [a \in 1..n |->
        [start |-> CHOOSE x \in {v[a] : v \in mask} : \A v \in mask : x <= v[a],
         stop |-> 1 + CHOOSE x \in {v[a] : v \in mask} : \A v \in mask : v[a] <= x]]

NoMargin == [given |-> FALSE, scalar |-> FALSE, integer |-> FALSE, v |-> <<>>]

Margin(scalar, integer, v) == [given |-> TRUE, scalar |-> scalar, integer |-> integer, v |-> v]

\* line 214: np.repeat(margin, self.basedim) if np.isscalar(margin) else np.asarray(margin)
MarginArray(margin, n) == IF margin.scalar THEN [a \in 1..n |-> margin.v[1]] ELSE margin.v

\* lines 218-221
Widened(cropping, m, shape) ==
    [a \in 1..Len(cropping) |->
        [start |-> Max(0, cropping[a].start - m[a]),
         stop |-> Min(shape[a], cropping[a].stop + m[a])]]

\* image.bbox(margin)
BBox(margin) ==
    LET mask == Mask(img)
        m == MarginArray(margin, img.basedim)
    IN  /\ img.set
        /\ UNCHANGED <<img, disk, label>>
        /\ ret' = IF mask = {}
                  THEN Returned("bbox", 0, 0, margin, FullExtent(img))
                  ELSE IF ~margin.given
                  THEN Returned("bbox", 0, 0, margin, FindObjects(mask, img.basedim))
                  ELSE IF Len(m) # img.basedim
                  THEN Call("bbox", 0, FALSE, "check_array", 0, margin)
                  ELSE IF ~margin.integer
                  THEN Call("bbox", 0, FALSE, "ValueError", 0, margin)
                  ELSE Returned("bbox", 0, 0, margin,
                                Widened(FindObjects(mask, img.basedim), m, img.shape))
        /\ UNCHANGED <<affs, bufs, disk, label>>

\* None, the scalars -1..MaxMargin, a scalar float, the sequences of 0 and
\* MaxMargin of the right length, one of floats and one that is too short
MarginInputs(n) ==
    {NoMargin} \cup
    {Margin(TRUE, TRUE, <<k>>) : k \in -1..MaxMargin} \cup
    {Margin(TRUE, FALSE, <<1>>)} \cup
    {Margin(FALSE, TRUE, v) : v \in [1..n -> {0, MaxMargin}]} \cup
    {Margin(FALSE, FALSE, [a \in 1..n |-> 1]), Margin(FALSE, TRUE, <<1>>)}

\* the data of nframes frames that are zero but for the cells (voxel, frame) of set
Sparse(shape, nframes, set) ==
    [v \in Voxels(shape) |->
        [f \in 1..nframes |-> IF \E c \in set : c[1] = v /\ c[2] = f
                               THEN (CHOOSE c \in set : c[1] = v /\ c[2] = f)[3]
                               ELSE 0]]

\* the sets of at most MaxNonzero cells with a value of -1 or 1 each
Cells(shape, nframes) ==
    LET places == Voxels(shape) \X (1..nframes)
    IN  UNION {{{<<p[1], p[2], val[p]>> : p \in where} : val \in [where -> {-1, 1}]}
               : where \in {w \in SUBSET places : Cardinality(w) <= MaxNonzero}}

UnitGeom(shape) ==
    Geom(shape, <<1, 1, 1>>, IdRot, <<0, 0, 0>>)

SparseImages(shape, nframes) ==
    {Image(shape, nframes, Sparse(shape, nframes, set), UnitGeom(shape))
        : set \in Cells(shape, nframes)}

\* 2D images, 3D images and 2D images of two frames
BBoxImages ==
    SparseImages(<<3, 2>>, 1) \cup SparseImages(<<2, 2, 2>>, 1) \cup SparseImages(<<2, 2>>, 2)

(***************************************************************************)
(* SpecBBox: one image and its bounding boxes.                             *)
(***************************************************************************)
InitBBox ==
    /\ img \in BBoxImages
    /\ disk = NoFile
    /\ label = NoLabel
    /\ affs = [a \in ObjIds |-> FreeObj]
    /\ bufs = [b \in BufIds |-> FreeBuf]
    /\ ret = Call("none", 0, TRUE, "", 0, NoArg)

NextBBox == \E margin \in MarginInputs(img.basedim) : BBox(margin)

SpecBBox == InitBBox /\ [][NextBBox]_vars

(***************************************************************************)
(* FramedImage.resample_like, framed.py 289-363.  The image a method       *)
(* returns is a record like an image, with how it came about: the receiver *)
(* itself ("self"), a copy of it, a new image, or a new image whose data   *)
(* come from interpolation and are not modelled.                           *)
(***************************************************************************)
Result(how, shape, nframes, data, geom) ==
    [kind |-> IF Len(shape) = 2 THEN "Slice" ELSE "Volume", how |-> how, shape |-> shape,
     nframes |-> nframes, data |-> data, geom |-> geom]

\* return self.copy() if copy else self
SelfOrCopy(im, copy) ==
    Result(IF copy THEN "copy" ELSE "self", im.shape, im.nframes, im.data, im.geom)

\* what interpolate(...) gives, then self.new(interped, target_geom)
Interpolated(im, shape, geom) == Result("interpolated", shape, im.nframes, <<>>, geom)

\* a returned image as the receiver of the next call
AsImage(val) == Image(val.shape, val.nframes, val.data, val.geom)

Raised(err) == [ok |-> FALSE, err |-> err, val |-> NoArg]

Gives(val) == [ok |-> TRUE, err |-> "", val |-> val]

OffsetZero(sg, tg) == [num |-> <<0, 0, 0>>, den |-> <<1, 1, 1>>]

\* line 333: coord = affine.inv().transform((0, 0, 0)) for affine =
\* source.world2vox @ target.vox2world, that is target.world2vox applied to
\* the world position of source voxel 0; by axis a fraction num / den (the
\* rotations are orthonormal, so the inverse of rotation * voxsize is
\* transpose(rotation) / voxsize)
Offset(sg, tg) ==
    LET ts == Trans2(sg)
        tt == Trans2(tg)
        d == <<ts[1] - tt[1], ts[2] - tt[2], ts[3] - tt[3]>>
        num(j) == tg.rotation[1][j] * d[1] + tg.rotation[2][j] * d[2] + tg.rotation[3][j] * d[3]
    IN  [num |-> <<num(1), num(2), num(3)>>,
         den |-> <<2 * tg.voxsize[1], 2 * tg.voxsize[2], 2 * tg.voxsize[3]>>]

\* lines 330-335: voxel sizes and rotations match (a geometry has no shear)
\* and the offset is whole
FastPath(sg, tg) ==
    /\ sg.voxsize = tg.voxsize /\ sg.rotation = tg.rotation
    /\ LET c == Offset(sg, tg) IN \A j \in 1..3 : c.num[j] % c.den[j] = 0

RangesUnclamped(s, t, t0) ==
    LET range(a) == [tstart |-> t0[a], tstop |-> t0[a] + s[a], sstart |-> 0, sstop |-> s[a]]
    IN  <<range(1), range(2), range(3)>>

\* lines 337-348: the slicing coordinates by axis, for source shape s, target
\* shape t and target_start t0
Ranges(s, t, t0) ==
    LET range(a) ==
            LET low == Max(0 - t0[a], 0)
                high == Max(t0[a] + s[a] - t[a], 0)
            IN  [tstart |-> t0[a] + low, tstop |-> t0[a] + s[a] - high,
                 sstart |-> low, sstop |-> s[a] - high]
    IN  <<range(1), range(2), range(3)>>

\* slice(start, stop) of an axis of length n selects the indices from
\* SliceBound(start, n) up to SliceBound(stop, n): a negative bound counts
\* from the end, and both are clipped to the axis
SliceBound(x, n) == IF x < 0 THEN Max(x + n, 0) ELSE Min(x, n)

\* lines 354-356: np.full(..., fill), then target_data[target_slicing] =
\* self.framed_data[source_slicing]; numpy stretches a source axis of length
\* 1 and raises ValueError when the lengths differ otherwise
Placed(im, tg, fill, r) ==
    LET s == im.shape
        t == tg.shape
        lo(a) == <<SliceBound(r[a].tstart, t[a]), SliceBound(r[a].sstart, s[a])>>
        len(a) == <<Max(SliceBound(r[a].tstop, t[a]) - lo(a)[1], 0),
                    Max(SliceBound(r[a].sstop, s[a]) - lo(a)[2], 0)>>
        tlo == <<lo(1)[1], lo(2)[1], lo(3)[1]>>
        slo == <<lo(1)[2], lo(2)[2], lo(3)[2]>>
        tn == <<len(1)[1], len(2)[1], len(3)[1]>>
        sn == <<len(1)[2], len(2)[2], len(3)[2]>>
        blank == IF im.nframes = 1 THEN <<fill>> ELSE <<fill, fill>>
    IN  IF \E a \in 1..3 : sn[a] # tn[a] /\ sn[a] # 1
        THEN Raised("ValueError")
        ELSE Gives(Result("new", t, im.nframes,
                 [v \in Voxels(t) |->
                     IF \A a \in 1..3 : tlo[a] <= v[a] /\ v[a] < tlo[a] + tn[a]
                     THEN im.data[[a \in 1..3 |->
                              IF sn[a] = 1 THEN slo[a] ELSE slo[a] + v[a] - tlo[a]]]
                     ELSE blank],
                 tg))

ResampleLikeOutcome(im, tg, copy, fill) ==
    IF im.basedim = 2 THEN Raised("NotImplementedError")
    ELSE IF ImageGeometryEqual(im.geom, tg) THEN Gives(SelfOrCopy(im, copy))
    ELSE IF FastPath(im.geom, tg)
    THEN LET c == Offset(im.geom, tg)
             r == Ranges(im.shape, tg.shape,
                         <<c.num[1] \div c.den[1], c.num[2] \div c.den[2], c.num[3] \div c.den[3]>>)
         IN  Placed(im, tg, fill, r)
    ELSE Gives(Interpolated(im, tg.shape, tg))

\* the receiver of a call: the image, or the volume the last crop returned
Receiver(who) ==
    IF who = "img" THEN [image |-> img, ix |-> <<>>]
    ELSE [image |-> AsImage(ret.val), ix |-> ret.arg]

HasReceiver(who) ==
    who = "img" \/ (ret.op = "crop" /\ ret.ok /\ ret.val.kind = "Volume")

\* receiver.resample_like(tg, copy=copy, fill=fill)
ResampleLike(who, tg, copy, fill) ==
    /\ img.set /\ HasReceiver(who)
    /\ LET out == ResampleLikeOutcome(Receiver(who).image, tg, copy, fill)
       IN  /\ UNCHANGED <<img, disk, label>>
           /\ ret' = [op |-> "resample_like", self |-> Receiver(who), ok |-> out.ok,
                      err |-> out.err, obj |-> 0,
                      arg |-> [target |-> tg, copy |-> copy, fill |-> fill], val |-> out.val]
    /\ UNCHANGED <<affs, bufs, disk, label>>

\* the geometry of shape t, with the voxel sizes and rotation of sg, in which
\* voxel 0 of sg lies at off2 / 2
Shifted(sg, t, off2) ==
    LET lin == Lin(sg)
    IN  Geom(t, sg.voxsize, sg.rotation,
             [i \in 1..3 |->
                 Trans2(sg)[i] + lin[i][1] * (t[1] - off2[1]) + lin[i][2] * (t[2] - off2[2])
                               + lin[i][3] * (t[3] - off2[3])])

MaxShift == 4

\* the targets of the image: its own geometry, grids shifted by whole voxels
\* along the first two axes, as far as MaxShift along the first, so that the
\* source lies inside, across the edges of and outside the target, a grid
\* shifted by half a voxel and a grid of other voxel sizes
Targets(sg) ==
    {sg} \cup
    {Shifted(sg, <<3, 2, 2>>, <<2 * x, 2 * y, 0>>) :
        x \in (0 - MaxShift)..MaxShift, y \in {-1, 0, 1}} \cup
    {Shifted(sg, sg.shape, <<1, 0, 0>>), Geom(sg.shape, <<2, 2, 2>>, sg.rotation, sg.center2)}

\* a volume of two frames
TwoFrames == Image(<<2, 2, 2>>, 2,
                   [v \in Voxels(<<2, 2, 2>>) |-> <<Coded(<<2, 2, 2>>)[v][1], 500 + Coded(<<2, 2, 2>>)[v][1]>>],
                   Geom(<<2, 2, 2>>, <<1, 1, 1>>, IdRot, <<1, 0, 0>>))

\* the crops by slices of step 1
StepOneCrops(shape) ==
    LET slices(n) == {Slc(x[1], x[2], 1) : x \in {y \in (0..(n - 1)) \X (1..n) : y[1] < y[2]}}
    IN  {<<x, y, z>> : x \in slices(shape[1]), y \in slices(shape[2]), z \in slices(shape[3])}

(***************************************************************************)
(* SpecResample: a volume, its crops, and resampling either onto targets.  *)
(***************************************************************************)
InitResample ==
    /\ img \in {Oblique, TwoFrames}
    /\ disk = NoFile
    /\ label = NoLabel
    /\ affs = [a \in ObjIds |-> FreeObj]
    /\ bufs = [b \in BufIds |-> FreeBuf]
    /\ ret = Call("none", 0, TRUE, "", 0, NoArg)

\* a crop is resampled onto its own geometry and onto the image's
NextResample ==
    \/ \E ix \in StepOneCrops(img.shape) : Crop(ix)
    \/ \E opt \in {<<TRUE, 0>>, <<FALSE, 7>>}, tg \in Targets(img.geom) :
          ResampleLike("img", tg, opt[1], opt[2])
    \/ \E opt \in {<<TRUE, 0>>, <<FALSE, 7>>}, own \in BOOLEAN :
          /\ HasReceiver("ret")
          /\ ResampleLike("ret", IF own THEN ret.val.geom ELSE img.geom, opt[1], opt[2])

SpecResample == InitResample /\ [][NextResample]_vars

SetterOps == {"set_matrix", "set_space", "set_source", "set_target"}

\* the last row of the n x n identity
UnitRow(n) == [j \in 1..n |-> IF j = n THEN 1 ELSE 0]

(***************************************************************************)
(* C1.  Once an Affine is read-only, a call to any of the four setters on  *)
(* it fails and its matrix, space, source and target stay as they are, and *)
(* it stays read-only.  copy() returns another object, writeable, with its *)
(* own array and equal attributes; a setter call on one object never       *)
(* changes another object's attributes or its read-only flag.              *)
(***************************************************************************)
C1_ReadOnlyIsRespected ==
    [][/\ \A a \in ObjIds : (affs[a].alloc /\ ~writeable(a)) =>
              /\ AttrsIn(affs', bufs', a) = Attrs(a)
              /\ ~WriteableIn(affs', bufs', a)
              /\ (ret'.op \in SetterOps /\ ret'.self = a) => ~ret'.ok
       /\ ret'.op = "copy" =>
              /\ ret'.obj # ret'.self
              /\ WriteableIn(affs', bufs', ret'.obj)
              /\ affs'[ret'.obj].buf # affs'[ret'.self].buf
              /\ AttrsIn(affs', bufs', ret'.obj) = Attrs(ret'.self)
              /\ AttrsIn(affs', bufs', ret'.self) = Attrs(ret'.self)
       /\ ret'.op \in SetterOps =>
              \A a \in ObjIds : (affs[a].alloc /\ a # ret'.self) =>
                  /\ AttrsIn(affs', bufs', a) = Attrs(a)
                  /\ WriteableIn(affs', bufs', a) = writeable(a)
      ]_vars

\* a read-only Affine whose copy has since been given another matrix and
\* another space, and on which a matrix assignment has just failed
C1_Witness ==
    \E a \in ObjIds, c \in ObjIds :
        /\ affs[a].alloc /\ affs[c].alloc /\ affs[c].origin = a
        /\ ~writeable(a) /\ writeable(c)
        /\ matrix(c) # matrix(a)
        /\ affs[c].space # affs[a].space
        /\ ret.op = "set_matrix" /\ ret.self = a /\ ~ret.ok /\ ret.err = "read-only"

(***************************************************************************)
(* C2.  After a construction or a matrix assignment (to a writeable        *)
(* Affine) with an input of shape (N, N+1) or (N+1, N+1), N in {2, 3}, the *)
(* call has succeeded and the stored matrix is (N+1) x (N+1) with last row *)
(* [0, ..., 0, 1].                                                         *)
(***************************************************************************)
C2_StoredMatrixIsHomogeneous ==
    (/\ ret.op \in {"init", "set_matrix"}
     /\ ShapeAccepted(ret.arg)
     /\ ret.err # "read-only")
    => /\ ret.ok
       /\ LET a == IF ret.op = "init" THEN ret.obj ELSE ret.self
              n == Cols(ret.arg)
          IN  /\ Shape(matrix(a)) = <<n, n>>
              /\ matrix(a)[n] = UnitRow(n)


(***************************************************************************)
(* C3.  a.inv() is an Affine whose matrix is the inverse of a's, with      *)
(* source = a.target, target = a.source and space = a.space; if a is       *)
(* itself the inverse of an Affine o, then a.inv() has o's matrix, source, *)
(* target and space; and (a @ b).inv() has the matrix of b.inv() @ a.inv() *)
(* for invertible a, b of equal dimensionality.                            *)
(***************************************************************************)
C3_InvSwapsAndReverses ==
    /\ (ret.op = "inv" /\ ret.ok) =>
          /\ MatMul(ret.val.matrix, matrix(ret.self)) = Eye(ndim(ret.self) + 1)
          /\ MatMul(matrix(ret.self), ret.val.matrix) = Eye(ndim(ret.self) + 1)
          /\ ret.val.source = affs[ret.self].target
          /\ ret.val.target = affs[ret.self].source
          /\ ret.val.space = affs[ret.self].space
          /\ ret.obj # ret.self
          /\ affs[ret.self].via = "inv" => ret.val = Attrs(affs[ret.self].origin)
    /\ \A a \in Allocated, b \in Allocated :
          (/\ ndim(a) = ndim(b)
           /\ HasExactInverse(matrix(a))
           /\ HasExactInverse(matrix(b))) =>
             InvOf(MatMulOf(Attrs(a), Attrs(b))).matrix
                 = MatMulOf(InvOf(Attrs(b)), InvOf(Attrs(a))).matrix

\* the inverse of an inverse has just been taken, of an Affine with a source
\* and a target that differ, and two different invertible Affines of equal
\* dimensionality exist whose product is not commutative
C3_Witness ==
    /\ ret.op = "inv" /\ ret.ok
    /\ affs[ret.self].via = "inv"
    /\ ret.val.source # ret.val.target
    /\ ret.val.matrix # matrix(ret.self)

C3_WitnessProduct ==
    \E a \in Allocated, b \in Allocated :
        /\ ndim(a) = ndim(b)
        /\ HasExactInverse(matrix(a)) /\ HasExactInverse(matrix(b))
        /\ MatMul(matrix(a), matrix(b)) # MatMul(matrix(b), matrix(a))
        /\ ret.op = "matmul" /\ ret.ok /\ ret.self = a /\ ret.arg = b


\* Affine.transform of one point: the first N entries of matrix . (p, 1)
ApplyPoint(m, p) ==
    [i \in 1..Len(p) |->
        SumTo([j \in 1..Len(p) |-> m[i][j] * p[j]], Len(p)) + m[i][Len(p) + 1]]

\* a point carried from one space of a geometry to another
ToSpace(g, from, to, p) == ApplyPoint(GeomAffine(g, from, to), p)

\* the origin and the unit points: an affine map is fixed by their images
ProbePoints == {<<0, 0, 0>>, <<1, 0, 0>>, <<0, 1, 0>>, <<0, 0, 1>>}

(***************************************************************************)
(* C4.  convert(): if the requested (space, source, target) equals the     *)
(* transform's own, the call returns the transform itself (copy=False) or  *)
(* another object with equal attributes (copy=True); otherwise, if the     *)
(* transform's space, source or target is unset, the call fails.  In every *)
(* case the transform keeps its attributes and its flag.                   *)
(***************************************************************************)
C4_ConvertSameOrMissingContext ==
    [][ret'.op = "convert" =>
        LET a == ret'.self
            x == Attrs(a)
            r == Requested(x, ret'.arg)
            same == r.space = x.space /\ r.source = x.source /\ r.target = x.target
        IN  /\ same =>
                /\ ret'.ok
                /\ ret'.val = x
                /\ IF ret'.arg.copy THEN ret'.obj # a ELSE ret'.obj = a
            /\ (~same /\ (x.space = NoSpace \/ x.source = NoGeom \/ x.target = NoGeom)) =>
                ~ret'.ok
            /\ AttrsIn(affs', bufs', a) = x
            /\ WriteableIn(affs', bufs', a) = writeable(a)
      ]_vars

\* a transform without a source has been asked for another space and the call
\* has failed
C4_Witness ==
    /\ ret.op = "convert" /\ ~ret.ok /\ ret.err = "context"
    /\ affs[ret.self].source = NoGeom /\ affs[ret.self].target # NoGeom
    /\ ret.arg.space # NoSpace /\ ret.arg.space # affs[ret.self].space

\* a transform has been asked for its own triple, spelled out, with copy=True
C4_WitnessSame ==
    /\ ret.op = "convert" /\ ret.ok /\ ret.arg.copy /\ ret.obj = 0
    /\ ret.arg.space = affs[ret.self].space /\ ret.arg.space # NoSpace
    /\ ret.arg.source = affs[ret.self].source /\ ret.arg.source # NoGeom

(***************************************************************************)
(* C5.  convert() of a 3D transform M with full context, asked for another *)
(* triple, returns an Affine tagged with the requested source, target and  *)
(* space that maps a point p as follows.  Only the space changes: p is     *)
(* taken from the new to the old space with the source, mapped by M, and   *)
(* taken from the old to the new space with the target.  Source or target  *)
(* changes: p is taken from the new space to world with the new source,    *)
(* from world to the old space with the old source, mapped by M, taken     *)
(* from the old space to world with the old target and from world to the   *)
(* new space with the new target.                                          *)
(***************************************************************************)
C5_ConvertComposition ==
    (/\ ret.op = "convert"
     /\ ndim(ret.self) = 3
     /\ ~MissingContext(Attrs(ret.self))
     /\ Requested(Attrs(ret.self), ret.arg) #
            [source |-> affs[ret.self].source, target |-> affs[ret.self].target,
             space |-> affs[ret.self].space])
    => LET x == Attrs(ret.self)
           r == Requested(x, ret.arg)
       IN  /\ ret.ok
           /\ ret.obj # ret.self
           /\ ret.val.source = r.source
           /\ ret.val.target = r.target
           /\ ret.val.space = r.space
           /\ Shape(ret.val.matrix) = <<4, 4>>
           /\ \A p \in ProbePoints :
                ApplyPoint(ret.val.matrix, p) =
                    IF r.source = x.source /\ r.target = x.target
                    THEN ToSpace(x.target, x.space, r.space,
                            ApplyPoint(x.matrix, ToSpace(x.source, r.space, x.space, p)))
                    ELSE ToSpace(r.target, "world", r.space,
                            ToSpace(x.target, x.space, "world",
                               ApplyPoint(x.matrix,
                                  ToSpace(x.source, "world", x.space,
                                     ToSpace(r.source, r.space, "world", p)))))

\* a voxel-space transform between two different geometries has been
\* converted to world space, and its matrix has changed
C5_Witness ==
    /\ ret.op = "convert" /\ ret.ok /\ ret.obj = 0
    /\ ndim(ret.self) = 3
    /\ affs[ret.self].space = "voxel" /\ ret.val.space = "world"
    /\ affs[ret.self].source # affs[ret.self].target
    /\ ret.val.source = affs[ret.self].source /\ ret.val.target = affs[ret.self].target
    /\ ret.val.matrix # matrix(ret.self)

\* a world-space transform has been converted to voxel space with a new source
C5_WitnessNewSource ==
    /\ ret.op = "convert" /\ ret.ok /\ ret.obj = 0
    /\ ndim(ret.self) = 3
    /\ affs[ret.self].space = "world" /\ ret.val.space = "voxel"
    /\ ret.val.source # affs[ret.self].source
    /\ ret.val.matrix # matrix(ret.self)


(***************************************************************************)
(* C6.  Affine.transform(points) returns an array of the shape of its      *)
(* input: (N,) for one point, (K, N) for a stack of K >= 1 points.         *)
(***************************************************************************)
C6_TransformKeepsShape ==
    (ret.op = "transform" /\ ret.ok) => ArrShape(ret.val) = ArrShape(ret.arg)

(***************************************************************************)
(* Cropping.  In the formulas below ix is the index expression of the last *)
(* crop and out what it returned.                                          *)
(***************************************************************************)
Cropped == ret.op = "crop" /\ ret.ok

(***************************************************************************)
(* C7.  A crop whose index expression has a spatial slice with a step      *)
(* other than 1, negative or greater than 1, fails with an error and       *)
(* returns no image.                                                       *)
(***************************************************************************)
C7_StepNotOneFails ==
    (ret.op = "crop" /\ StepNotOne(SlicingStep(ret.arg))) => (~ret.ok /\ ret.val = NoArg)

\* C7 as the code has it: a crop fails, with NotImplementedError and without
\* a result, exactly when a step is below 1; with steps of 1 and more it
\* returns the data subsampled by the steps
C7_StepBelowOneFails ==
    ret.op = "crop" =>
        IF \E a \in 1..Len(ret.arg) : ret.arg[a].step < 1
        THEN ~ret.ok /\ ret.err = "NotImplementedError" /\ ret.val = NoArg
        ELSE /\ ret.ok
             /\ ret.val.shape = [k \in 1..Len(KeptAxes(ret.arg)) |->
                                    SliceLen(ret.arg[KeptAxes(ret.arg)[k]])]
             /\ \A v \in Voxels(ret.val.shape) :
                    ret.val.data[v] =
                        img.data[[a \in 1..Len(ret.arg) |->
                            IF ret.arg[a].int THEN ret.arg[a].start
                            ELSE ret.arg[a].start + ret.arg[a].step *
                                 v[Cardinality({c \in 1..a : ~ret.arg[c].int})]]]

\* a reversal was refused
C7_Witness ==
    /\ ret.op = "crop" /\ ~ret.ok
    /\ \E a \in 1..Len(ret.arg) : ret.arg[a].step = -1

\* a crop with a step of 2 returned an image
C7_WitnessStepTwo ==
    /\ Cropped /\ ret.val.kind = "Volume"
    /\ \E a \in 1..Len(ret.arg) : ret.arg[a].step = 2

(***************************************************************************)
(* C8.  The kind of a crop's result depends only on the number of spatial  *)
(* axes indexed by an int: a raw array for one or more of a 2D image and   *)
(* two or more of a 3D image; for exactly one of a 3D image a Slice whose  *)
(* rotation columns and voxel sizes are those of the kept axes in order,   *)
(* then the dropped axis; for none the dimensionality, rotation and voxel  *)
(* size of the input.                                                      *)
(***************************************************************************)
NumInts == Cardinality({a \in 1..Len(ret.arg) : ret.arg[a].int})

\* the kept axes of the last crop in order, then the dropped ones
KeptThenDropped ==
    KeptAxes(ret.arg) \o SelectSeq([a \in 1..3 |-> a],
                                   LAMBDA a : a <= Len(ret.arg) /\ ret.arg[a].int)

C8_Kind ==
    IF (img.basedim = 2 /\ NumInts >= 1) \/ (img.basedim = 3 /\ NumInts >= 2)
    THEN ret.val.kind = "ndarray" /\ ~ret.val.geom.set
    ELSE IF NumInts = 1 THEN ret.val.kind = "Slice" /\ Len(ret.val.shape) = 2
    ELSE /\ ret.val.kind = (IF img.basedim = 2 THEN "Slice" ELSE "Volume")
         /\ Len(ret.val.shape) = img.basedim

C8_CropKind ==
    Cropped =>
        /\ C8_Kind
        /\ (img.basedim = 3 /\ NumInts = 1) =>
              /\ \A k \in 1..3, i \in 1..3 :
                    ret.val.geom.rotation[i][k] = img.geom.rotation[i][KeptThenDropped[k]]
              /\ \A k \in 1..3 : ret.val.geom.voxsize[k] = img.geom.voxsize[KeptThenDropped[k]]
        /\ NumInts = 0 =>
              /\ ret.val.geom.rotation = img.geom.rotation
              /\ ret.val.geom.voxsize = img.geom.voxsize

\* C8 as the code has it: the voxel size of every axis is multiplied by the
\* step its slice takes (1 for an axis indexed by an int)
C8_CropKindStepScaled ==
    Cropped =>
        /\ C8_Kind
        /\ (img.basedim = 3 /\ NumInts = 1) =>
              /\ \A k \in 1..3, i \in 1..3 :
                    ret.val.geom.rotation[i][k] = img.geom.rotation[i][KeptThenDropped[k]]
              /\ \A k \in 1..3 :
                    ret.val.geom.voxsize[k] =
                        img.geom.voxsize[KeptThenDropped[k]] * ret.arg[KeptThenDropped[k]].step
        /\ NumInts = 0 =>
              /\ ret.val.geom.rotation = img.geom.rotation
              /\ \A k \in 1..3 :
                    ret.val.geom.voxsize[k] =
                        img.geom.voxsize[k] * (IF k <= Len(ret.arg) THEN ret.arg[k].step ELSE 1)

\* the first axis of a volume with a rotation was indexed by an int
C8_Witness ==
    /\ Cropped /\ img.basedim = 3 /\ img.geom.rotation # IdRot
    /\ ret.arg[1].int /\ NumInts = 1 /\ ret.val.kind = "Slice"

C8_WitnessRaw == Cropped /\ img.basedim = 3 /\ NumInts = 2 /\ ret.val.kind = "ndarray"

C8_WitnessWhole == Cropped /\ NumInts = 0 /\ ret.arg[1].step = 2 /\ ret.val.kind = "Volume"

(***************************************************************************)
(* C9.  After a crop of a 3D volume by slices of step 1 that start at s,   *)
(* voxel v of the result holds the value of voxel v + s of the volume and  *)
(* has its world coordinate.  The 4x4x4 volume whose only nonzero voxel is *)
(* (1, 1, 1) = 5, cropped to [0:2, 0:2, 0:2], gives a 2x2x2 volume whose   *)
(* only nonzero voxel is (1, 1, 1) = 5, centred at (-1, -1, -1).           *)
(***************************************************************************)
StepOneCrop ==
    /\ Cropped /\ img.basedim = 3
    /\ \A a \in 1..3 : ~ret.arg[a].int /\ ret.arg[a].step = 1

C9_CropKeepsWorld ==
    /\ StepOneCrop =>
          \A v \in Voxels(ret.val.shape) :
              LET s == SlicingStart(ret.arg)
                  u == [a \in 1..3 |-> v[a] + s[a]]
              IN  /\ ret.val.data[v] = img.data[u]
                  /\ World2(ret.val.geom, v) = World2(img.geom, u)
    /\ (StepOneCrop /\ img = Scenario /\ ret.arg = [a \in 1..3 |-> Slc(0, 2, 1)]) =>
          /\ ret.val.kind = "Volume" /\ ret.val.shape = <<2, 2, 2>>
          /\ \A v \in Voxels(<<2, 2, 2>>) :
                ret.val.data[v] = IF v = <<1, 1, 1>> THEN <<5>> ELSE <<0>>
          /\ ret.val.geom.center2 = <<-2, -2, -2>>

\* the crop of the scenario
C9_Witness == StepOneCrop /\ img = Scenario /\ ret.arg = [a \in 1..3 |-> Slc(0, 2, 1)]

\* a crop of the rotated volume that starts away from the origin
C9_WitnessOblique ==
    StepOneCrop /\ img = Oblique /\ SlicingStart(ret.arg) = <<1, 1, 0>>


(***************************************************************************)
(* C10.  bbox() returns the smallest box of indices that contains every    *)
(* voxel that is nonzero in some frame, negative values included, and the  *)
(* full extent when there is none; an integer margin widens the box by the *)
(* margin on each side of each axis, clamped to [0, shape].                *)
(***************************************************************************)
\* the smallest box that contains the voxels of a non-empty set, widened by
\* m and clamped
BoxAround(set, m) ==
    [a \in 1..img.basedim |->
        LET lo == CHOOSE x \in 0..img.shape[a] : (\E v \in set : v[a] = x) /\ \A v \in set : x <= v[a]
            hi == CHOOSE x \in 0..img.shape[a] : (\E v \in set : v[a] = x) /\ \A v \in set : x >= v[a]
        IN  [start |-> IF lo - m[a] < 0 THEN 0 ELSE lo - m[a],
             stop |-> IF hi + 1 + m[a] > img.shape[a] THEN img.shape[a] ELSE hi + 1 + m[a]]]

\* the margin of the last call by axis, 0 when there is none
MarginByAxis ==
    [a \in 1..img.basedim |->
        IF ~ret.arg.given THEN 0 ELSE IF ret.arg.scalar THEN ret.arg.v[1] ELSE ret.arg.v[a]]

BoxOf(set) ==
    IF set = {} THEN [a \in 1..img.basedim |-> [start |-> 0, stop |-> img.shape[a]]]
    ELSE BoxAround(set, MarginByAxis)

C10_BBoxOfNonzero ==
    (ret.op = "bbox" /\ ret.ok) =>
        ret.val = BoxOf({v \in Voxels(img.shape) : \E f \in 1..img.nframes : img.data[v][f] # 0})

\* C10 as the code has it: the voxels that count are those that are greater
\* than zero in some frame
C10_BBoxOfPositive ==
    (ret.op = "bbox" /\ ret.ok) =>
        ret.val = BoxOf({v \in Voxels(img.shape) : \E f \in 1..img.nframes : img.data[v][f] > 0})

\* a box with a margin of 1 around a positive voxel, in an image that has a
\* negative voxel outside the box
C10_Witness ==
    /\ ret.op = "bbox" /\ ret.ok /\ ret.arg.given /\ ret.arg.v = <<1>>
    /\ \E v \in Voxels(img.shape) : img.data[v][1] < 0
    /\ \E v \in Voxels(img.shape) : img.data[v][1] > 0
    /\ \E a \in 1..img.basedim : ret.val[a].stop < img.shape[a]

\* the full extent of an image without a positive voxel
C10_WitnessEmpty ==
    /\ ret.op = "bbox" /\ ret.ok
    /\ \A v \in Voxels(img.shape), f \in 1..img.nframes : img.data[v][f] <= 0
    /\ ret.val = [a \in 1..img.basedim |-> [start |-> 0, stop |-> img.shape[a]]]

\* a voxel that is positive in the second frame only
C10_WitnessFrames ==
    /\ ret.op = "bbox" /\ ret.ok /\ img.nframes = 2
    /\ \E v \in Voxels(img.shape) : img.data[v][1] < 0 /\ img.data[v][2] > 0
    /\ ret.val[1].stop - ret.val[1].start = 1


(***************************************************************************)
(* Resampling.  In the formulas below the receiver and the target are      *)
(* those of the last resample_like.                                        *)
(***************************************************************************)
Resampled == ret.op = "resample_like"

\* the last resample_like took the offset copy of lines 336-357
OffsetCopied ==
    /\ Resampled /\ ret.self.image.basedim = 3
    /\ ret.self.image.geom # ret.arg.target
    /\ FastPath(ret.self.image.geom, ret.arg.target)

\* target_start of the last resample_like
TargetStart ==
    LET c == Offset(ret.self.image.geom, ret.arg.target)
    IN  [a \in 1..3 |-> c.num[a] \div c.den[a]]

Blank == [f \in 1..ret.self.image.nframes |-> ret.arg.fill]

(***************************************************************************)
(* C11.  In the offset copy of resample_like, for every whole offset of    *)
(* the source in the target, the source lying partly or wholly outside the *)
(* target on either side included, the index ranges of both arrays satisfy *)
(* 0 <= start <= stop <= shape and have the same length, the copy          *)
(* succeeds, and a target voxel holds the value of its source voxel, or    *)
(* the fill value when it has none.                                        *)
(***************************************************************************)
C11_OffsetCopyInRange ==
    OffsetCopied =>
        LET s == ret.self.image.shape
            t == ret.arg.target.shape
            r == Ranges(s, t, TargetStart)
        IN  /\ \A a \in 1..3 :
                  /\ 0 <= r[a].tstart /\ r[a].tstart <= r[a].tstop /\ r[a].tstop <= t[a]
                  /\ 0 <= r[a].sstart /\ r[a].sstart <= r[a].sstop /\ r[a].sstop <= s[a]
                  /\ r[a].tstop - r[a].tstart = r[a].sstop - r[a].sstart
            /\ ret.ok
            /\ \A v \in Voxels(t) :
                  ret.val.data[v] =
                      IF \A a \in 1..3 : TargetStart[a] <= v[a] /\ v[a] < TargetStart[a] + s[a]
                      THEN ret.self.image.data[[a \in 1..3 |-> v[a] - TargetStart[a]]]
                      ELSE Blank

\* when the copy does succeed, no voxel holds a wrong value
C11_NoWrongVoxel ==
    (OffsetCopied /\ ret.ok) =>
        \A v \in Voxels(ret.arg.target.shape) :
            ret.val.data[v] =
                IF \A a \in 1..3 : TargetStart[a] <= v[a]
                                   /\ v[a] < TargetStart[a] + ret.self.image.shape[a]
                THEN ret.self.image.data[[a \in 1..3 |-> v[a] - TargetStart[a]]]
                ELSE Blank

(***************************************************************************)
(* C12.  A crop of a volume, of one frame or more, by slices of step 1,    *)
(* resampled onto the geometry of the volume, has the shape of the volume; *)
(* its voxels inside the cropped region hold the values of the volume and  *)
(* those outside hold the fill value.                                      *)
(***************************************************************************)
C12_CropThenResampleRestores ==
    (Resampled /\ ret.self.ix # <<>> /\ ret.arg.target = img.geom) =>
        /\ ret.ok
        /\ ret.val.kind = "Volume" /\ ret.val.shape = img.shape /\ ret.val.geom = img.geom
        /\ ret.val.nframes = img.nframes
        /\ \A v \in Voxels(img.shape) :
              ret.val.data[v] =
                  IF \A a \in 1..3 : ret.self.ix[a].start <= v[a] /\ v[a] < ret.self.ix[a].stop
                  THEN img.data[v]
                  ELSE Blank

\* a crop of the volume of two frames that starts away from the origin was
\* put back with a fill value of 7
C12_Witness ==
    /\ Resampled /\ ret.ok /\ ret.self.ix # <<>> /\ ret.arg.target = img.geom
    /\ img.nframes = 2 /\ ret.arg.fill = 7 /\ ret.val.how = "new"
    /\ ret.self.ix[1].start = 1 /\ ret.self.ix[2].stop = 1

(***************************************************************************)
(* FramedImage.transform, framed.py 365-427.  An affine is given by the    *)
(* attributes of the Affine, a displacement field by its presence.         *)
(***************************************************************************)
NoAffine == [matrix |-> NoMatrix, space |-> NoSpace, source |-> NoGeom, target |-> NoGeom]

\* the geometry after geom.vox2world = mat
GeomOfMatrix(shape, mat) == [set |-> TRUE, shape |-> shape, vox2world |-> mat]

ComposedOnTheRight(a, b) == MatMul(b, a)

\* line 403: converted @ transformed.geom.vox2world
Composed(a, b) == MatMul(a, b)

\* lines 398-404: the header-only transform of image im by the affine x
HeaderTransform(im, x) ==
    IF (x.source = NoGeom /\ x.target = NoGeom) \/ x.space = NoSpace
    THEN Raised("ValueError")
    ELSE LET out == ConvertOutcome(x, [source |-> im.geom, target |-> NoGeom,
                                       space |-> "world", copy |-> TRUE])
         IN  IF out.kind = "error"
             THEN Raised(IF out.err = "context" THEN "RuntimeError" ELSE "ValueError")
             ELSE IF Cols(out.val.matrix) # 4
             THEN Raised("ValueError")
             ELSE Gives(Result("copy", im.shape, im.nframes, im.data,
                               GeomOfMatrix(im.shape,
                                            Composed(out.val.matrix, Vox2World(im.geom)))))

\* lines 406-427: the resampling transform; without an affine target_geom is
\* never bound
ResamplingTransform(im, x) ==
    IF x = NoAffine
    THEN Raised("UnboundLocalError")
    ELSE LET full == x.space # NoSpace /\ x.source # NoGeom /\ x.target # NoGeom
             out == ConvertOutcome(x, [source |-> im.geom, target |-> NoGeom,
                                       space |-> "voxel", copy |-> TRUE])
         IN  IF full /\ out.kind = "error"
             THEN Raised(IF out.err = "context" THEN "RuntimeError" ELSE "ValueError")
             ELSE IF ~full /\ x.space \notin {NoSpace, "voxel"}
             THEN Raised("ValueError")
             ELSE LET y == IF full THEN out.val ELSE x
                  IN  IF Det(y.matrix) = 0
                      THEN Raised("LinAlgError")
                      ELSE IF full
                      THEN Gives(Interpolated(im, y.target.shape, y.target))
                      ELSE Gives(Interpolated(im, im.shape, im.geom))

TransformOutcome(im, x, disp, resample) ==
    IF im.basedim = 2
    THEN Raised("NotImplementedError")
    ELSE IF ~resample /\ disp
    THEN Raised("ValueError")
    ELSE IF ~resample /\ x # NoAffine
    THEN HeaderTransform(im, x)
    ELSE ResamplingTransform(im, x)

\* img.transform(affine=x, disp=disp, resample=resample)
TransformImage(x, disp, resample) ==
    LET out == TransformOutcome(img, x, disp, resample)
    IN  /\ img.set
        /\ ret' = [op |-> "transform", self |-> img, ok |-> out.ok, err |-> out.err,
                   obj |-> 0, arg |-> [affine |-> x, disp |-> disp, resample |-> resample],
                   val |-> out.val]
        /\ UNCHANGED <<affs, bufs, img, disk, label>>

TransformMatrices == {R44, Z44, M33}

\* (source, target, space) of the affines: complete, in part, none
TransformContexts ==
    {<<G1, G2, "voxel">>, <<G1, G2, "world">>, <<G2, G1, "voxel">>, <<G2, G2, "world">>,
     <<NoGeom, G2, "voxel">>, <<G1, NoGeom, "world">>, <<NoGeom, G1, "world">>,
     <<NoGeom, NoGeom, "world">>, <<G1, G2, NoSpace>>}

TransformAffines ==
    {NoAffine} \cup
    {NewAffine(mat, c[1], c[2], c[3]) : mat \in TransformMatrices, c \in TransformContexts}

\* data of two frames in which every voxel holds values of its own
CodedFrames(shape) ==
    LET one == Coded(shape)
    IN  [v \in Voxels(shape) |-> <<one[v][1], 500 + one[v][1]>>]

\* a volume on G1, a volume of two frames on G2, a 2D image
TransformImages ==
    {Image(G1.shape, 1, Coded(G1.shape), G1),
     Image(G2.shape, 2, CodedFrames(G2.shape), G2), Flat}

(***************************************************************************)
(* SpecTransform: one image, transformed by an affine or a displacement    *)
(* field, with and without resampling.                                     *)
(***************************************************************************)
InitTransform ==
    /\ img \in TransformImages
    /\ disk = NoFile
    /\ label = NoLabel
    /\ affs = [a \in ObjIds |-> FreeObj]
    /\ bufs = [b \in BufIds |-> FreeBuf]
    /\ ret = Call("none", 0, TRUE, "", 0, NoArg)

NextTransform ==
    \E x \in TransformAffines, disp \in BOOLEAN, resample \in BOOLEAN :
        TransformImage(x, disp, resample)

SpecTransform == InitTransform /\ [][NextTransform]_vars

(***************************************************************************)
(* Header-only transforms.                                                 *)
(***************************************************************************)
HeaderOnly == ret.op = "transform" /\ ~ret.arg.resample

\* the affine of the last transform as a map of world points: into the
\* affine's own space by its source, through its matrix, back by its target
WorldMap(p) ==
    LET x == ret.arg.affine
    IN  IF x.space = "world" THEN ApplyPoint(x.matrix, p)
        ELSE ToSpace(x.target, "voxel", "world",
                     ApplyPoint(x.matrix, ToSpace(x.source, "world", "voxel", p)))

\* the affine of the last transform carries a space, a source and a target
FullContext ==
    LET x == ret.arg.affine
    IN  x # NoAffine /\ x.space # NoSpace /\ x.source # NoGeom /\ x.target # NoGeom

(***************************************************************************)
(* C13.  transform(resample=False) never changes voxel data.  With an      *)
(* affine (of three dimensions, with its space, source and target) it      *)
(* returns a new image with the data of the input, whose vox2world carries *)
(* a voxel to the image under the affine, taken in world space, of the     *)
(* point the old vox2world carries it to; the input keeps its data and     *)
(* geometry.  With a displacement field it fails and returns nothing.      *)
(***************************************************************************)
C13_HeaderOnlyTransform ==
    HeaderOnly =>
        /\ img = ret.self
        /\ ret.arg.disp => ~ret.ok /\ ret.val = NoArg
        /\ (FullContext /\ ~ret.arg.disp /\ img.basedim = 3
             /\ Cols(ret.arg.affine.matrix) = 4) => ret.ok
        /\ ret.ok =>
              /\ ret.val.how = "copy"
              /\ ret.val.data = ret.self.data /\ ret.val.shape = ret.self.shape
              /\ ret.val.nframes = ret.self.nframes
              /\ \A p \in ProbePoints :
                    ApplyPoint(ret.val.geom.vox2world, p)
                        = WorldMap(ToSpace(ret.self.geom, "voxel", "world", p))

\* a quarter turn given in voxel space between G1 and G2 was applied to the
\* header of the volume of two frames
C13_Witness ==
    /\ HeaderOnly /\ ret.ok /\ ret.self.nframes = 2
    /\ ret.arg.affine.matrix = R44 /\ ret.arg.affine.space = "voxel"
    /\ ret.arg.affine.source = G1 /\ ret.arg.affine.target = G2
    /\ ret.val.geom.vox2world # Vox2World(ret.self.geom)

\* a displacement field was refused
C13_WitnessDisp ==
    /\ HeaderOnly /\ ~ret.ok /\ ret.arg.disp /\ ret.err = "ValueError"
    /\ ret.arg.affine # NoAffine

(***************************************************************************)
(* FramedImage.reorient, framed.py 429-488.  An orientation code is a      *)
(* triple of letters; array indices are 1-based here, so a world axis or a *)
(* voxel axis k of the code is k + 1 below.  A geometry made from a        *)
(* vox2world matrix is kept as that matrix.                                *)
(***************************************************************************)
Upper(c) ==
    CASE c = "r" -> "R" [] c = "l" -> "L" [] c = "a" -> "A"
      [] c = "p" -> "P" [] c = "s" -> "S" [] c = "i" -> "I" [] OTHER -> c

Lower(c) ==
    CASE c = "R" -> "r" [] c = "L" -> "l" [] c = "A" -> "a"
      [] c = "P" -> "p" [] c = "S" -> "s" [] c = "I" -> "i" [] OTHER -> c

\* str.upper()
UpperCase(o) == <<Upper(o[1]), Upper(o[2]), Upper(o[3])>>

\* the world axis a letter names, and the direction along it
LetterAxis(c) == CASE c \in {"R", "L"} -> 1 [] c \in {"A", "P"} -> 2 [] c \in {"S", "I"} -> 3

LetterSign(c) == IF c \in {"R", "A", "S"} THEN 1 ELSE -1

\* the valid orientation codes
Orientations ==
    {o \in {"R", "L", "A", "P", "S", "I"} \X {"R", "L", "A", "P", "S", "I"}
           \X {"R", "L", "A", "P", "S", "I"} :
        {LetterAxis(o[1]), LetterAxis(o[2]), LetterAxis(o[3])} = {1, 2, 3}}

\* otn.orientation_to_rotation_matrix: column i is the world direction of
\* voxel axis i
OrientationToRotationMatrix(o) ==
    LET e(w, i) == IF LetterAxis(o[i]) = w THEN LetterSign(o[i]) ELSE 0
    IN  <<<<e(1, 1), e(1, 2), e(1, 3)>>, <<e(2, 1), e(2, 2), e(2, 3)>>,
          <<e(3, 1), e(3, 2), e(3, 3)>>>>

\* otn.rotation_matrix_to_orientation: the dominant world axis of each column
RotationMatrixToOrientation(m) ==
    LET letter(i) ==
            LET sag == m[1][i]
                cor == m[2][i]
                ax == m[3][i]
            IN  IF Abs(sag) > Abs(cor) /\ Abs(sag) > Abs(ax)
                THEN (IF sag > 0 THEN "R" ELSE "L")
                ELSE IF Abs(cor) > Abs(ax)
                THEN (IF cor > 0 THEN "A" ELSE "P")
                ELSE (IF ax > 0 THEN "S" ELSE "I")
    IN  <<letter(1), letter(2), letter(3)>>

\* ImageGeometry(shape=shape, vox2world=mat, voxsize=voxsize)
MatrixGeometry(shape, mat, voxsize) ==
    [set |-> TRUE, shape |-> shape, vox2world |-> mat, voxsize |-> voxsize]

\* np.linalg.inv of a 3x3 matrix whose inverse is integral: the adjugate
\* over the determinant
Inv3(m) ==
    LET c(r1, c1, r2, c2) == m[r1][c1] * m[r2][c2]
        n11 == c(2, 2, 3, 3) - c(2, 3, 3, 2)
        n21 == c(2, 3, 3, 1) - c(2, 1, 3, 3)
        n31 == c(2, 1, 3, 2) - c(2, 2, 3, 1)
        d == m[1][1] * n11 + m[1][2] * n21 + m[1][3] * n31
        q(x) == (Sign(d) * x) \div Abs(d)
    IN  <<<<q(n11), q(c(1, 3, 3, 2) - c(1, 2, 3, 3)), q(c(1, 2, 2, 3) - c(1, 3, 2, 2))>>,
          <<q(n21), q(c(1, 1, 3, 3) - c(1, 3, 3, 1)), q(c(1, 3, 2, 1) - c(1, 1, 2, 3))>>,
          <<q(n31), q(c(1, 2, 3, 1) - c(1, 1, 3, 2)), q(c(1, 1, 2, 2) - c(1, 2, 2, 1))>>>>

\* line 454: np.argmax(np.absolute(np.linalg.inv(aff)), axis=0), the first
\* row of the largest entry of each column
GetWorldAxes(aff) ==
    LET inv == Inv3(aff)
        argmax(w) == CHOOSE i \in 1..3 :
                        /\ \A k \in 1..3 : Abs(inv[k][w]) <= Abs(inv[i][w])
                        /\ \A k \in 1..(i - 1) : Abs(inv[k][w]) < Abs(inv[i][w])
    IN  <<argmax(1), argmax(2), argmax(3)>>

\* the tuple t with the entries at a and b exchanged
Exchanged(t, a, b) == [t EXCEPT ![a] = t[b], ![b] = t[a]]

\* a round that exchanges the axes of data and leaves world_axes_src as it is
AlignAxisOnce(st, trg, i) ==
    IF st.src[i] = trg[i] THEN st
    ELSE [axes |-> Exchanged(st.axes, st.src[i], trg[i]), src |-> st.src]

\* lines 470-474, one round of the loop: st.axes[j] is the axis of the
\* original array that axis j of data is, st.src is world_axes_src
AlignAxis(st, trg, i) ==
    IF st.src[i] = trg[i] THEN st
    ELSE LET swapped == CHOOSE k \in 1..3 : st.src[k] = trg[i]
         IN  [axes |-> Exchanged(st.axes, st.src[i], trg[i]),
              src |-> [st.src EXCEPT ![swapped] = st.src[i], ![i] = st.src[swapped]]]

AlignAxes(src, trg) ==
    AlignAxis(AlignAxis(AlignAxis([axes |-> <<1, 2, 3>>, src |-> src], trg, 1), trg, 2),
              trg, 3).axes

\* line 469: affine[:, world_axes_trg] = affine[:, world_axes_src]
AlignedColumns(old, src, trg) ==
    LET from(j) == src[CHOOSE w \in 1..3 : trg[w] = j]
        line(r) == <<old[r][from(1)], old[r][from(2)], old[r][from(3)], old[r][4]>>
    IN  <<line(1), line(2), line(3), line(4)>>

\* line 477: whether np.sum(affine[:3, :3] * trg_matrix[:3, :3], axis=0) is
\* negative, by axis
Opposed(aligned, trgm) ==
    LET dot(i) == aligned[1][i] * trgm[1][i] + aligned[2][i] * trgm[2][i]
                      + aligned[3][i] * trgm[3][i]
    IN  <<dot(1) < 0, dot(2) < 0, dot(3) < 0>>

\* the columns of the flipped axes negated, the translation as it was
FlippedColumnsInPlace(aligned, flip, shape) ==
    LET col(r, j) == IF flip[j] THEN 0 - aligned[r][j] ELSE aligned[r][j]
        row(r) == <<col(r, 1), col(r, 2), col(r, 3), aligned[r][4]>>
    IN  <<row(1), row(2), row(3), aligned[4]>>

\* lines 478-482: the columns of the flipped axes negated and the
\* translation moved by the extent of each flipped axis
FlippedColumns(aligned, flip, shape) ==
    LET col(r, j) == IF flip[j] THEN 0 - aligned[r][j] ELSE aligned[r][j]
        moved(r, j) == IF flip[j] THEN (0 - aligned[r][j]) * (shape[j] - 1) ELSE 0
        row(r) == <<col(r, 1), col(r, 2), col(r, 3),
                    aligned[r][4] - moved(r, 1) - moved(r, 2) - moved(r, 3)>>
    IN  <<row(1), row(2), row(3), aligned[4]>>

\* lines 473 and 480: the array with axis j taken from axis axes[j] of data
\* and the axes of flip reversed
SwappedAndFlipped(data, axes, flip, shape) ==
    LET at(v, j) == IF flip[j] THEN shape[j] - 1 - v[j] ELSE v[j]
        to(a) == CHOOSE j \in 1..3 : axes[j] = a
    IN  [v \in Voxels(shape) |-> data[<<at(v, to(1)), at(v, to(2)), at(v, to(3))>>]]

\* lines 452-488 for a volume whose orientation differs from the target's:
\* trgm is trg_matrix, trg and src are world_axes_trg and world_axes_src
Reoriented(im, trgm, trg, src) ==
    LET voxsize == <<im.geom.voxsize[src[trg[1]]], im.geom.voxsize[src[trg[2]]],
                     im.geom.voxsize[src[trg[3]]]>>
        axes == AlignAxes(src, trg)
        shape == <<im.shape[axes[1]], im.shape[axes[2]], im.shape[axes[3]]>>
        aligned == AlignedColumns(im.geom.vox2world, src, trg)
        flip == Opposed(aligned, trgm)
    IN  Result("new", shape, im.nframes, SwappedAndFlipped(im.data, axes, flip, shape),
               MatrixGeometry(shape, FlippedColumns(aligned, flip, shape), voxsize))

ReorientOutcome(im, orientation, copy) ==
    IF im.basedim = 2
    THEN Raised("NotImplementedError")
    ELSE LET trgo == UpperCase(orientation)
             srco == RotationMatrixToOrientation(im.geom.vox2world)
             trgm == OrientationToRotationMatrix(trgo)
         IN  IF trgo = UpperCase(srco)
             THEN Gives(SelfOrCopy(im, copy))
             ELSE Gives(Reoriented(im, trgm, GetWorldAxes(trgm),
                                   GetWorldAxes(OrientationToRotationMatrix(srco))))

\* recv.reorient(orientation, copy) for the image itself or for the volume
\* the last reorient returned; via is the orientation that volume was given
Reorient(who, orientation, copy) ==
    LET recv == IF who = "img" THEN img ELSE AsImage(ret.val)
        out == ReorientOutcome(recv, orientation, copy)
    IN  /\ img.set
        /\ ret' = [op |-> "reorient",
                   self |-> [image |-> recv,
                             via |-> IF who = "img" THEN <<>> ELSE ret.arg.orientation],
                   ok |-> out.ok, err |-> out.err, obj |-> 0,
                   arg |-> [orientation |-> orientation, copy |-> copy], val |-> out.val]
        /\ UNCHANGED <<affs, bufs, img, disk, label>>

\* voxel sizes 1, 2, 3 along the voxel axes of orientation o, voxel (0, 0, 0)
\* at the world point (5, -3, 2)
OrientedMatrix(o) ==
    LET rot == OrientationToRotationMatrix(o)
    IN  <<<<rot[1][1], 2 * rot[1][2], 3 * rot[1][3], 5>>,
          <<rot[2][1], 2 * rot[2][2], 3 * rot[2][3], -3>>,
          <<rot[3][1], 2 * rot[3][2], 3 * rot[3][3], 2>>,
          <<0, 0, 0, 1>>>>

\* a volume of shape 2x3x4 in each orientation, volumes of shape 3x1x3 and
\* 2x2x2 in three orientations, and a 2D image
ReorientImages ==
    {Image(<<2, 3, 4>>, 1, Coded(<<2, 3, 4>>),
           MatrixGeometry(<<2, 3, 4>>, OrientedMatrix(o), <<1, 2, 3>>)) : o \in Orientations}
    \cup {Image(shape, 1, Coded(shape),
                MatrixGeometry(shape, OrientedMatrix(o), <<1, 2, 3>>)) :
              shape \in {<<3, 1, 3>>, <<2, 2, 2>>},
              o \in {<<"R", "A", "S">>, <<"L", "I", "A">>, <<"P", "S", "R">>}}
    \cup {Flat}

\* every code in upper case, and the codes of two orientations in lower and
\* in mixed case with copy=False
ReorientInputs ==
    {<<o, TRUE>> : o \in Orientations}
    \cup {<<<<Lower(o[1]), Lower(o[2]), Lower(o[3])>>, FALSE>> :
              o \in {<<"P", "I", "R">>, <<"R", "A", "S">>}}
    \cup {<<<<Lower(o[1]), o[2], Lower(o[3])>>, FALSE>> :
              o \in {<<"P", "I", "R">>, <<"R", "A", "S">>}}

(***************************************************************************)
(* SpecReorient: a volume in one of the orientations is reoriented, and    *)
(* the volume that returns is reoriented to the orientation of the first.  *)
(***************************************************************************)
InitReorient ==
    /\ img \in ReorientImages
    /\ disk = NoFile
    /\ label = NoLabel
    /\ affs = [a \in ObjIds |-> FreeObj]
    /\ bufs = [b \in BufIds |-> FreeBuf]
    /\ ret = Call("none", 0, TRUE, "", 0, NoArg)

NextReorient ==
    \/ /\ ret.op = "none"
       /\ \E arg \in ReorientInputs : Reorient("img", arg[1], arg[2])
    \/ /\ ret.op = "reorient" /\ ret.ok /\ ret.self.via = <<>>
       /\ Reorient("ret", RotationMatrixToOrientation(img.geom.vox2world), TRUE)

SpecReorient == InitReorient /\ [][NextReorient]_vars

(***************************************************************************)
(* C14.  Reorienting a volume to its own orientation, written in any       *)
(* letter case, returns a volume of equal data and geometry; and for any   *)
(* two of the 48 orientation codes A and B, a volume in orientation A that *)
(* is reoriented to B and the result back to A has the data and the        *)
(* vox2world of the volume.                                                *)
(***************************************************************************)
C14_ReorientThereAndBack ==
    (ret.op = "reorient" /\ img.basedim = 3) =>
        LET own == RotationMatrixToOrientation(img.geom.vox2world)
        IN  /\ own \in Orientations
            /\ (ret.self.via = <<>> /\ UpperCase(ret.arg.orientation) = own) =>
                  /\ ret.ok /\ ret.val.how \in {"self", "copy"}
                  /\ ret.val.shape = img.shape /\ ret.val.data = img.data
                  /\ ret.val.geom = img.geom
            /\ (ret.self.via # <<>>) =>
                  /\ ret.arg.orientation = own
                  /\ ret.ok
                  /\ ret.val.shape = img.shape /\ ret.val.data = img.data
                  /\ ret.val.geom.vox2world = img.geom.vox2world

\* a volume in LIA went to ARS, which turns its axes in a cycle and flips
\* two of them, and back
C14_Witness ==
    /\ ret.op = "reorient" /\ ret.ok /\ ret.val.how = "new"
    /\ ret.self.via = <<"A", "R", "S">> /\ ret.arg.orientation = <<"L", "I", "A">>
    /\ ret.self.image.shape = <<4, 2, 3>>

\* a code in lower case that names the volume's own orientation
C14_WitnessOwn ==
    /\ ret.op = "reorient" /\ ret.ok /\ ret.self.via = <<>>
    /\ ret.arg.orientation = <<"p", "i", "r">> /\ ret.val.how = "self"

(***************************************************************************)
(* FramedImage.reshape, framed.py 490-545.                                 *)
(***************************************************************************)
\* geom.vox2world.matrix of a geometry of either form
MatrixOf(g) == IF "vox2world" \in DOMAIN g THEN g.vox2world ELSE Vox2World(g)

\* mat[:3, :3] applied to v
Linear(mat, v) ==
    LET e(i) == mat[i][1] * v[1] + mat[i][2] * v[2] + mat[i][3] * v[3]
    IN  <<e(1), e(2), e(3)>>

\* lines 515-527: low and high are floor and ceil of (shape - baseshape) / 2;
\* the array is padded by their positive parts and cropped by the negative
\* part of high at the start and of low at the end; p0crs is that of line 533
Fit(old, new) ==
    LET low(a) == (new[a] - old[a]) \div 2
        high(a) == 0 - ((old[a] - new[a]) \div 2)
        fit(a) == [padlow |-> Max(low(a), 0),
                   padded |-> old[a] + Max(low(a), 0) + Max(high(a), 0),
                   croplow |-> Max(0 - high(a), 0),
                   crophigh |-> old[a] + Max(low(a), 0) + Max(high(a), 0) - Max(0 - low(a), 0),
                   p0crs |-> Max(0 - high(a), 0) - Max(low(a), 0)]
    IN  <<fit(1), fit(2), fit(3)>>

\* lines 520 and 526: np.pad with zeros, then the crop
PaddedAndCropped(data, old, f, shape) ==
    LET u(v, a) == v[a] + f[a].croplow - f[a].padlow
        inside(v) == \A a \in 1..3 : 0 <= u(v, a) /\ u(v, a) < old[a]
    IN  [v \in Voxels(shape) |->
            IF inside(v) THEN data[<<u(v, 1), u(v, 2), u(v, 3)>>] ELSE <<0>>]

\* lines 530-538: the linear part of old and the translation
\* cras - matrix @ pcrs, where cras is the image of pcrs = shape / 2 under
\* the matrix whose translation is p0 = vox2world(p0crs)
ReshapedMatrix(old, f, shape) ==
    LET p0crs == <<f[1].p0crs, f[2].p0crs, f[3].p0crs>>
        lp == Linear(old, p0crs)
        half2 == Linear(old, shape)
        cras2(i) == half2[i] + 2 * (lp[i] + old[i][4])
        row(i) == <<old[i][1], old[i][2], old[i][3], (cras2(i) - half2[i]) \div 2>>
    IN  <<row(1), row(2), row(3), <<0, 0, 0, 1>>>>

\* data.squeeze() drops the axes of length 1, and np.pad then refuses the
\* three pairs of widths
ReshapeOutcome(im, shape, copy) ==
    IF im.basedim = 2 \/ im.nframes > 1
    THEN Raised("NotImplementedError")
    ELSE IF im.shape = shape
    THEN Gives(SelfOrCopy(im, copy))
    ELSE IF \E a \in 1..3 : im.shape[a] = 1
    THEN Raised("ValueError")
    ELSE LET f == Fit(im.shape, shape)
             fitted == <<f[1].crophigh - f[1].croplow, f[2].crophigh - f[2].croplow,
                         f[3].crophigh - f[3].croplow>>
         IN  Gives(Result("new", fitted, 1, IF im.data = <<>> THEN <<>>
                                 ELSE PaddedAndCropped(im.data, im.shape, f, fitted),
                          MatrixGeometry(fitted, ReshapedMatrix(MatrixOf(im.geom), f, fitted),
                                         im.geom.voxsize)))

\* img.reshape(shape, copy)
Reshape(shape, copy) ==
    LET out == ReshapeOutcome(img, shape, copy)
    IN  /\ img.set
        /\ ret' = [op |-> "reshape", self |-> img, ok |-> out.ok, err |-> out.err,
                   obj |-> 0, arg |-> [shape |-> shape, copy |-> copy], val |-> out.val]
        /\ UNCHANGED <<affs, bufs, img, disk, label>>

MaxDim == 4

\* a volume in orientation PIR with voxel sizes 1, 2, 3
Volume(shape, nframes) ==
    Image(shape, nframes, IF nframes = 1 THEN Coded(shape) ELSE CodedFrames(shape),
          MatrixGeometry(shape, OrientedMatrix(<<"P", "I", "R">>), <<1, 2, 3>>))

ReshapeImages ==
    {Volume(<<2, 3, 2>>, 1), Volume(<<3, 2, 4>>, 1), Volume(<<3, 1, 2>>, 1),
     Volume(<<2, 2, 2>>, 2), Flat}

(***************************************************************************)
(* SpecReshape: one image, reshaped to the shapes of up to MaxDim voxels   *)
(* by axis.                                                                *)
(***************************************************************************)
InitReshape ==
    /\ img \in ReshapeImages
    /\ disk = NoFile
    /\ label = NoLabel
    /\ affs = [a \in ObjIds |-> FreeObj]
    /\ bufs = [b \in BufIds |-> FreeBuf]
    /\ ret = Call("none", 0, TRUE, "", 0, NoArg)

NextReshape ==
    \E shape \in (1..MaxDim) \X (1..MaxDim) \X (1..MaxDim), copy \in BOOLEAN :
        Reshape(shape, copy)

SpecReshape == InitReshape /\ [][NextReshape]_vars

\* twice the world point of the geometric center, vox2world(shape / 2)
Center2(shape, mat) ==
    LET half2 == Linear(mat, shape)
    IN  <<half2[1] + 2 * mat[1][4], half2[2] + 2 * mat[2][4], half2[3] + 2 * mat[3][4]>>

Reshaped == ret.op = "reshape" /\ ret.self.basedim = 3 /\ ret.self.nframes = 1

(***************************************************************************)
(* C15.  reshape(target) of a volume returns a volume of the target shape  *)
(* whose geometric center, vox2world(shape / 2), is at the world point of  *)
(* the geometric center of the volume, for every shape of the volume and   *)
(* every target, those that differ by an odd number on an axis included.   *)
(***************************************************************************)
C15_ReshapeKeepsCenter ==
    Reshaped =>
        /\ ret.ok
        /\ ret.val.shape = ret.arg.shape
        /\ Center2(ret.val.shape, ret.val.geom.vox2world)
               = Center2(ret.self.shape, ret.self.geom.vox2world)

\* what reshape keeps is the world point of each voxel of the volume that
\* the result still holds, and so the center only if every axis changes by
\* an even number
C15_ReshapeKeepsVoxels ==
    (Reshaped /\ ret.ok) =>
        LET f == Fit(ret.self.shape, ret.arg.shape)
            old == ret.self.geom.vox2world
            new == ret.val.geom.vox2world
        IN  /\ ret.val.shape = ret.arg.shape
            /\ \A v \in Voxels(ret.val.shape) :
                  LET u == <<v[1] + f[1].p0crs, v[2] + f[2].p0crs, v[3] + f[3].p0crs>>
                  IN  /\ ApplyPoint(new, v) = ApplyPoint(old, u)
                      /\ ret.val.data[v] = IF u \in Voxels(ret.self.shape)
                                           THEN ret.self.data[u] ELSE <<0>>
            /\ (\A a \in 1..3 : (ret.arg.shape[a] - ret.self.shape[a]) % 2 = 0)
                  <=> Center2(ret.val.shape, new) = Center2(ret.self.shape, old)

(***************************************************************************)
(* FramedImage.resize, framed.py 241-287, and FramedImage.conform,         *)
(* framed.py 547-577.  The array interpolate returns is not modelled: an   *)
(* interpolated image has its shape and geometry and no data.              *)
(***************************************************************************)
\* geom.rotation: the columns of vox2world over the voxel sizes
RotationOf(g) ==
    IF "vox2world" \in DOMAIN g
    THEN LET e(i, j) == g.vox2world[i][j] \div g.voxsize[j]
         IN  <<<<e(1, 1), e(1, 2), e(1, 3)>>, <<e(2, 1), e(2, 2), e(2, 3)>>,
               <<e(3, 1), e(3, 2), e(3, 3)>>>>
    ELSE g.rotation

\* twice geom.center
Center2Of(g) ==
    IF "vox2world" \in DOMAIN g
    THEN LET half2 == Linear(g.vox2world, g.shape)
         IN  <<half2[1] + 2 * g.vox2world[1][4], half2[2] + 2 * g.vox2world[2][4],
               half2[3] + 2 * g.vox2world[3][4]>>
    ELSE g.center2

\* lines 262-287; voxsize is a scalar, given as a tuple of one, or a vector
Resized(im, voxsize, copy) ==
    LET vs == IF Len(voxsize) = 1 THEN <<voxsize[1], voxsize[1], voxsize[1]>>
              ELSE voxsize
        baseshape3D == Pad(im.shape, 3, 1)
        ceil(a) == 0 - ((0 - im.geom.voxsize[a] * baseshape3D[a]) \div vs[a])
        target == <<ceil(1), ceil(2), ceil(3)>>
    IN  IF im.geom.voxsize = vs
        THEN Gives(SelfOrCopy(im, copy))
        ELSE Gives(Interpolated(im, target,
                                Geom(target, vs, RotationOf(im.geom), Center2Of(im.geom))))

\* resize of an image of any dimension
ResizedWhateverDim(im, voxsize, copy) == Resized(im, voxsize, copy)

\* lines 259-287
ResizeOutcome(im, voxsize, copy) ==
    IF im.basedim = 2
    THEN Raised("NotImplementedError")
    ELSE Resized(im, voxsize, copy)

\* img.resize(voxsize, method, copy)
Resize(voxsize, copy) ==
    LET out == ResizeOutcome(img, voxsize, copy)
    IN  /\ img.set
        /\ ret' = [op |-> "resize", self |-> img, ok |-> out.ok, err |-> out.err,
                   obj |-> 0, arg |-> [voxsize |-> voxsize, copy |-> copy], val |-> out.val]
        /\ UNCHANGED <<affs, bufs, img, disk, label>>

NoShape == <<>>

NoDtype == "none"

\* the image conform returns, the stages it called and the number of
\* images made on the way
Conformed(im, cur, dtype, copy, made, log) ==
    LET same == made = 0
        out == IF same THEN SelfOrCopy(im, copy) ELSE cur
    IN  Gives([kind |-> out.kind, how |-> out.how, shape |-> out.shape,
               nframes |-> out.nframes, data |-> out.data, geom |-> out.geom,
               dtype |-> dtype, stages |-> log,
               made |-> IF same /\ copy THEN 1 ELSE made])

\* lines 575-577: astype(dtype, copy=False) returns the image itself if it
\* has the dtype
ConformCast(im, a, cur, made, log) ==
    IF a.dtype = NoDtype
    THEN Conformed(im, cur, im.dtype, a.copy, made, log)
    ELSE Conformed(im, IF a.dtype = im.dtype THEN cur
                       ELSE Result("new", cur.shape, cur.nframes, cur.data, cur.geom),
                   a.dtype, a.copy, IF a.dtype = im.dtype THEN made ELSE made + 1,
                   Append(log, "astype"))

\* a count that takes every stage to have returned its receiver
MadeNothing(made, val) == made

\* the images made so far, after a stage returned val
Made(made, val) == IF val.how = "self" THEN made ELSE made + 1

\* lines 573-574
ConformReshape(im, a, cur, made, log) ==
    IF a.shape = NoShape
    THEN ConformCast(im, a, cur, made, log)
    ELSE LET r == ReshapeOutcome(AsImage(cur), a.shape, FALSE)
         IN  IF r.ok
             THEN ConformCast(im, a, IF r.val.how = "self" THEN cur ELSE r.val,
                              Made(made, r.val), Append(log, "reshape"))
             ELSE r

\* line 572
ConformResize(im, a, cur, made, log) ==
    LET r == ResizeOutcome(AsImage(cur), a.voxsize, FALSE)
    IN  IF r.ok
        THEN ConformReshape(im, a, IF r.val.how = "self" THEN cur ELSE r.val,
                            Made(made, r.val), Append(log, "resize"))
        ELSE r

\* lines 571-577
ConformOutcome(im, a) ==
    LET r == ReorientOutcome(im, a.orientation, FALSE)
    IN  IF r.ok
        THEN ConformResize(im, a, r.val, Made(0, r.val), <<"reorient">>)
        ELSE r

\* img.conform(shape, voxsize, orientation, method, dtype, copy)
Conform(a) ==
    LET out == ConformOutcome(img, a)
    IN  /\ img.set
        /\ ret' = [op |-> "conform", self |-> img, ok |-> out.ok, err |-> out.err,
                   obj |-> 0, arg |-> a, val |-> out.val]
        /\ UNCHANGED <<affs, bufs, img, disk, label>>

\* an image with its dtype
Typed(im, dtype) ==
    [set |-> im.set, basedim |-> im.basedim, shape |-> im.shape, nframes |-> im.nframes,
     data |-> im.data, geom |-> im.geom, dtype |-> dtype]

\* a volume in orientation o with voxels of size 2, voxel (0, 0, 0) at the
\* world point (5, -3, 2)
Cubic(shape, nframes, o) ==
    LET rot == OrientationToRotationMatrix(o)
    IN  Image(shape, nframes, IF nframes = 1 THEN Coded(shape) ELSE CodedFrames(shape),
              MatrixGeometry(shape,
                             <<<<2 * rot[1][1], 2 * rot[1][2], 2 * rot[1][3], 5>>,
                               <<2 * rot[2][1], 2 * rot[2][2], 2 * rot[2][3], -3>>,
                               <<2 * rot[3][1], 2 * rot[3][2], 2 * rot[3][3], 2>>,
                               <<0, 0, 0, 1>>>>, <<2, 2, 2>>))

ConformImages ==
    {Typed(Cubic(<<2, 3, 2>>, 1, <<"L", "I", "A">>), "int32"),
     Typed(Cubic(<<2, 3, 2>>, 1, <<"A", "R", "S">>), "float32"),
     Typed(Cubic(<<2, 2, 2>>, 2, <<"L", "I", "A">>), "float32"),
     Typed(Flat, "int32")}

ConformArguments ==
    [shape : {NoShape, <<2, 3, 2>>, <<3, 3, 3>>}, voxsize : {<<2>>, <<1>>},
     orientation : {<<"L", "I", "A">>, <<"l", "i", "a">>, <<"A", "R", "S">>},
     dtype : {NoDtype, "int32", "float32"}, copy : BOOLEAN]

(***************************************************************************)
(* SpecConform: one image and conform.                                     *)
(***************************************************************************)
InitConform ==
    /\ img \in ConformImages
    /\ disk = NoFile
    /\ label = NoLabel
    /\ affs = [a \in ObjIds |-> FreeObj]
    /\ bufs = [b \in BufIds |-> FreeBuf]
    /\ ret = Call("none", 0, TRUE, "", 0, NoArg)

NextConform == \E a \in ConformArguments : Conform(a)

SpecConform == InitConform /\ [][NextConform]_vars

\* the last conform had nothing to change
NothingToChange ==
    /\ UpperCase(ret.arg.orientation) = RotationMatrixToOrientation(ret.self.geom.vox2world)
    /\ ret.arg.voxsize \in {<<ret.self.geom.voxsize[1]>>, ret.self.geom.voxsize}
    /\ ret.arg.shape \in {NoShape, ret.self.shape}
    /\ ret.arg.dtype \in {NoDtype, ret.self.dtype}

(***************************************************************************)
(* C16.  conform() calls its stages in the order reorient, resize, reshape *)
(* (if a shape is given), astype (if a dtype is given).  When no stage has *)
(* anything to change it returns the image itself with copy=False and one  *)
(* new copy of it, the only image made, with copy=True; when a stage       *)
(* changes something the image it returns is not the input.                *)
(***************************************************************************)
C16_ConformStagesAndIdentity ==
    (ret.op = "conform" /\ ret.ok) =>
        /\ ret.val.stages = <<"reorient", "resize">>
                \o (IF ret.arg.shape = NoShape THEN <<>> ELSE <<"reshape">>)
                \o (IF ret.arg.dtype = NoDtype THEN <<>> ELSE <<"astype">>)
        /\ NothingToChange =>
              /\ ret.val.how = IF ret.arg.copy THEN "copy" ELSE "self"
              /\ ret.val.made = IF ret.arg.copy THEN 1 ELSE 0
              /\ ret.val.data = ret.self.data /\ ret.val.geom = ret.self.geom
              /\ ret.val.dtype = ret.self.dtype
        /\ ~NothingToChange => ret.val.how \notin {"self", "copy"} /\ ret.val.made >= 1

\* nothing to change, a shape and a dtype given, copy=True
C16_Witness ==
    /\ ret.op = "conform" /\ ret.ok /\ NothingToChange /\ ret.arg.copy
    /\ ret.arg.shape # NoShape /\ ret.arg.dtype # NoDtype /\ ret.val.how = "copy"

\* the four stages each made an image
C16_WitnessAllStages ==
    /\ ret.op = "conform" /\ ret.ok /\ ret.val.made = 4
    /\ ret.val.stages = <<"reorient", "resize", "reshape", "astype">>

(***************************************************************************)
(* SpecFlat: a 2D image and the geometric operations, with arguments that  *)
(* a volume would accept and arguments it would refuse.                    *)
(***************************************************************************)
FlatImages ==
    {Flat, Image(<<2, 2>>, 2, CodedFrames(<<2, 2>>), Geom(<<2, 2>>, <<1, 1, 1>>, IdRot, <<0, 0, 0>>))}

InitFlat ==
    /\ img \in FlatImages
    /\ disk = NoFile
    /\ label = NoLabel
    /\ affs = [a \in ObjIds |-> FreeObj]
    /\ bufs = [b \in BufIds |-> FreeBuf]
    /\ ret = Call("none", 0, TRUE, "", 0, NoArg)

NextFlat ==
    \/ \E ix \in CropInputs(img) : Crop(ix)
    \/ \E voxsize \in {<<1>>, <<2, 1, 1>>, <<2, 2, 2>>, <<1, 1, 2>>}, copy \in BOOLEAN :
          Resize(voxsize, copy)
    \/ \E tg \in {img.geom, G1, NoGeom}, opt \in {<<TRUE, 0>>, <<FALSE, 7>>} :
          ResampleLike("img", tg, opt[1], opt[2])
    \/ \E x \in {NoAffine, NewAffine(R44, G1, G2, "world"), NewAffine(M33, NoGeom, NoGeom, NoSpace)},
          disp \in BOOLEAN, resample \in BOOLEAN :
          TransformImage(x, disp, resample)
    \/ \E o \in {<<"L", "I", "A">>, <<"r", "a", "s">>, <<"X", "Y", "Z">>}, copy \in BOOLEAN :
          Reorient("img", o, copy)
    \/ \E shape \in {img.shape, <<2, 2, 2>>, <<>>}, copy \in BOOLEAN : Reshape(shape, copy)

SpecFlat == InitFlat /\ [][NextFlat]_vars

\* the image the last call was made on
Called == IF ret.op \in {"resample_like", "reorient"} THEN ret.self.image ELSE ret.self

(***************************************************************************)
(* C17.  On a 2D image each of resize, resample_like, transform, reorient  *)
(* and reshape raises NotImplementedError whatever its arguments are, and  *)
(* returns nothing; the image is as it was.  A crop by an index expression *)
(* of step 1 succeeds, and no other of these operations does.              *)
(***************************************************************************)
C17_FlatImagesRefuse ==
    img.basedim = 2 =>
        /\ ret.op \in {"resize", "resample_like", "transform", "reorient", "reshape"} =>
              /\ ~ret.ok /\ ret.err = "NotImplementedError" /\ ret.val = NoArg
              /\ Called = img
        /\ (ret.op = "crop" /\ ~StepRejected(SlicingStep(ret.arg))) => ret.ok
        /\ (ret.ok /\ ret.op # "none") => ret.op = "crop"

\* a resize to the voxel size the image has was refused
C17_Witness ==
    /\ img.basedim = 2 /\ ret.op = "resize" /\ ~ret.ok
    /\ ret.arg.voxsize = img.geom.voxsize /\ ~ret.arg.copy

\* a reshape to no shape at all was refused
C17_WitnessReshape ==
    /\ img.basedim = 2 /\ ret.op = "reshape" /\ ~ret.ok /\ ret.arg.shape = <<>>
    /\ ret.err = "NotImplementedError"

\* a crop of the 2D image of two frames returned an image
C17_WitnessCrop ==
    /\ img.basedim = 2 /\ img.nframes = 2 /\ ret.op = "crop" /\ ret.ok

(***************************************************************************)
(* MGHArrayIO, io/framed.py 148-386.  A file is the sequence of the chunks *)
(* written to it, each with its field, its size n in bytes and its value;  *)
(* a read of n bytes at a position gives the value of the chunk of that    *)
(* size that starts there; any other read is not aligned.  An array has its    *)
(* dtype, the shape of its data, its values in column-major order, and,    *)
(* if it is an image, its geometry; a text is a tuple of characters.  A    *)
(* value v is the pair <<q, r>> of its digits in base 65536, v = 65536 q   *)
(* + r with 0 <= r < 65536, so that values beyond 32 bits can be told from *)
(* those within.                                                           *)
(***************************************************************************)
\* dtype_from_id, lines 154-180: the file dtype of an id, NoDtype if none
DtypeFromId(id) ==
    CASE id = 0 -> ">u1" [] id = 1 -> ">i4" [] id = 2 -> ">i8" [] id = 3 -> ">f4"
      [] id = 4 -> ">i2" [] id = 6 -> ">f4" [] id = 10 -> ">u2" [] OTHER -> NoDtype

\* bytes of an element of a file dtype
ItemSize(fdt) ==
    CASE fdt = ">u1" -> 1 [] fdt \in {">i2", ">u2"} -> 2 [] fdt \in {">i4", ">f4"} -> 4
      [] fdt = ">i8" -> 8

\* v brought into the w bits of a signed integer, as astype does
Wrapped(v, w) == ((v + 2 ^ (w - 1)) % (2 ^ w)) - 2 ^ (w - 1)

\* the digits of a small number
Num(v) == <<v \div 65536, v % 65536>>

\* ndarray.astype(np.int32): the low 32 bits, read as a signed number
AsInt32(v) == <<Wrapped(v[1], 16), v[2]>>

\* the value of v in a file dtype; the floats of the model are whole numbers
\* a float32 holds exactly
CastTo(fdt, v) ==
    CASE fdt = ">u1" -> <<0, v[2] % 256>>
      [] fdt = ">u2" -> <<0, v[2]>>
      [] fdt = ">i2" -> Num(Wrapped(v[2], 16))
      [] fdt = ">i4" -> AsInt32(v)
      [] OTHER -> v

\* v > np.iinfo(np.int32).max, v < np.iinfo(np.int32).min
AboveInt32(v) == v[1] > 32767

BelowInt32(v) == v[1] < -32768

\* lines 313-320: the dtypes of type_map and their ids, in its order
TypeMap ==
    <<<<"uint8", 0>>, <<"bool8", 0>>, <<"int32", 1>>, <<"floating", 3>>, <<"int16", 4>>,
      <<"uint16", 10>>>>

\* a dtype is only a subtype of itself
IsSameDtype(dtype, dt) == dtype = dt

\* np.issubdtype(dtype, dt) for dt of type_map
IsSubdtype(dtype, dt) ==
    CASE dt = "floating" -> dtype \in {"float16", "float32", "float64"}
      [] dt = "bool8" -> dtype = "bool"
      [] OTHER -> dtype = dt

\* line 321: the id of the first dtype of the map that dtype is a subtype
\* of, -1 if there is none
FirstMatch(map, dtype) ==
    IF \E i \in 1..Len(map) : IsSubdtype(dtype, map[i][1])
    THEN map[CHOOSE i \in 1..Len(map) :
                /\ IsSubdtype(dtype, map[i][1])
                /\ \A k \in 1..(i - 1) : ~IsSubdtype(dtype, map[k][1])][2]
    ELSE -1

\* lines 214-222 and 340-349: the bytes left of the 254 after the flag
WholeHeaderSpace(valid) == 254

UnusedHeaderSpace(valid) == IF valid THEN 254 - 60 ELSE 254

\* order='F' of a 3x3 matrix, and back
ColumnMajor(m) == <<m[1][1], m[2][1], m[3][1], m[1][2], m[2][2], m[3][2],
                    m[1][3], m[2][3], m[3][3]>>

FromColumnMajor(v) == <<<<v[1], v[4], v[7]>>, <<v[2], v[5], v[8]>>, <<v[3], v[6], v[9]>>>>

Chunk(field, n, v) == [f |-> field, n |-> n, v |-> v]

\* the bytes of a character in UTF-8: one for an ASCII character, two for
\* the e with an acute accent
Utf8Width(c) == IF c = "eacute" THEN 2 ELSE 1

\* len(text.encode('utf-8'))
RECURSIVE Utf8Len(_)
Utf8Len(text) == IF text = <<>> THEN 0 ELSE Utf8Width(Head(text)) + Utf8Len(Tail(text))

\* fsio.write_tag(file, tag, len(text)) and file.write(text.encode('utf-8'))
Tagged(tag, text) == <<Chunk("tag", 12, [tag |-> tag, length |-> Len(text)]),
                       Chunk("text", Utf8Len(text), text)>>

RECURSIVE HistoryTags(_)
HistoryTags(history) ==
    IF history = <<>> THEN <<>>
    ELSE Tagged("history", Head(history)) \o HistoryTags(Tail(history))

Unknown == <<"U", "N", "K", "N", "O", "W", "N">>

\* lines 328-384: what save writes of the array arr, whose dtype has the id
HeaderAndData(arr, id) ==
    LET fdt == DtypeFromId(id)
        shape == Pad(arr.shape, 4, 1)
        volsize == Pad(arr.geom.shape, 3, 1)
        geometry == IF arr.image
                    THEN <<Chunk("voxsize", 12, arr.geom.voxsize),
                           Chunk("rotation", 36, ColumnMajor(arr.geom.rotation)),
                           Chunk("center", 12, arr.geom.center2)>>
                    ELSE <<>>
        fov == IF arr.image
               THEN Max(arr.geom.voxsize[1] * volsize[1],
                        Max(arr.geom.voxsize[2] * volsize[2], arr.geom.voxsize[3] * volsize[3]))
               ELSE arr.shape[1]
    IN  <<Chunk("version", 4, 1), Chunk("shape", 16, <<shape[1], shape[2], shape[3], shape[4]>>),
          Chunk("dtype_id", 4, id), Chunk("dof", 4, 1),
          Chunk("valid", 2, IF arr.image THEN 1 ELSE 0)>>
        \o geometry
        \o <<Chunk("unused", UnusedHeaderSpace(arr.image), 0),
             Chunk("data", Len(arr.values) * ItemSize(fdt),
                   [i \in 1..Len(arr.values) |-> CastTo(fdt, arr.values[i])]),
             Chunk("tr", 4, 0), Chunk("fa", 4, 0), Chunk("te", 4, 0), Chunk("ti", 4, 0),
             Chunk("fov", 4, fov)>>
        \o Tagged("pedir", IF arr.pedir = <<>> THEN Unknown ELSE arr.pedir)
        \o <<Chunk("tag", 12, [tag |-> "fieldstrength", length |-> 4]),
             Chunk("fieldstrength", 4, 0)>>
        \o HistoryTags(arr.history)

\* the cast without the check of the limits
NarrowedAnyway(arr) ==
    Gives(IF arr.dtype # "int64" THEN arr
          ELSE [arr EXCEPT !.dtype = "int32",
                           !.values = [i \in 1..Len(arr.values) |-> AsInt32(arr.values[i])]])

\* lines 305-310: an int64 array is cast to int32 unless a value is beyond
\* the int32 limits
Narrowed(arr) ==
    IF arr.dtype # "int64" THEN Gives(arr)
    ELSE IF \E i \in 1..Len(arr.values) :
                AboveInt32(arr.values[i]) \/ BelowInt32(arr.values[i])
    THEN Raised("ValueError")
    ELSE Gives([arr EXCEPT !.dtype = "int32",
                           !.values = [i \in 1..Len(arr.values) |-> AsInt32(arr.values[i])]])

\* lines 303-386
SaveOutcome(arr) ==
    LET narrowed == Narrowed(arr)
        id == FirstMatch(TypeMap, narrowed.val.dtype)
    IN  IF ~narrowed.ok THEN narrowed
        ELSE IF id = -1 THEN Raised("ValueError")
        ELSE IF Len(arr.shape) < 1 \/ Len(arr.shape) > 4 THEN Raised("ValueError")
        ELSE Gives(HeaderAndData(narrowed.val, id))

\* lines 303-386: the file is opened for writing, which empties it or
\* creates it, before anything is tested or written
Written(out) == [exists |-> TRUE, content |-> IF out.ok THEN out.val ELSE <<>>]

\* save(img, filename)
Save ==
    LET out == SaveOutcome(img)
    IN  /\ ret.op = "none"
        /\ ret' = [op |-> "save", self |-> img, ok |-> out.ok, err |-> out.err, obj |-> 0,
                   arg |-> disk, val |-> out.val]
        /\ disk' = Written(out)
        /\ UNCHANGED <<affs, bufs, img, label>>

\* the bytes of the first i chunks of a file
RECURSIVE Size(_, _)
Size(file, i) == IF i = 0 THEN 0 ELSE Size(file, i - 1) + file[i].n

\* a chunk of n bytes starts at position pos
Aligned(file, pos, n) == \E i \in 1..Len(file) : Size(file, i - 1) = pos /\ file[i].n = n

\* read_bytes and file.read: n bytes at position pos
Read(file, pos, n) ==
    file[CHOOSE i \in 1..Len(file) : Size(file, i - 1) = pos /\ file[i].n = n].v

\* lines 251-281: the tags from position pos to the end of the file.  The
\* reads stray once one of them does not start at a record or does not end
\* with the text of one: what is read from there on is not what was written
RECURSIVE ReadTags(_, _, _)
ReadTags(file, pos, meta) ==
    IF pos >= Size(file, Len(file)) THEN meta
    ELSE IF ~Aligned(file, pos, 12) THEN [meta EXCEPT !.stray = TRUE]
    ELSE LET t == Read(file, pos, 12)
             at == pos + 12
             text == Read(file, at, t.length)
         IN  CASE t.tag \in {"history", "pedir"} /\ ~Aligned(file, at, t.length) ->
                    [meta EXCEPT !.stray = TRUE]
               [] t.tag = "history" ->
                    ReadTags(file, at + t.length, [meta EXCEPT !.history = Append(@, text)])
               [] t.tag = "pedir" ->
                    ReadTags(file, at + t.length,
                             IF text # Unknown THEN [meta EXCEPT !.pedir = text] ELSE meta)
               [] t.tag = "fieldstrength" ->
                    ReadTags(file, at + 4, [meta EXCEPT !.fieldstrength = Read(file, at, 4)])
               [] OTHER -> ReadTags(file, at + t.length, meta)

\* data.squeeze(): the shape without its axes of length 1
RECURSIVE Squeezed(_)
Squeezed(shape) ==
    IF shape = <<>> THEN <<>>
    ELSE IF Head(shape) = 1 THEN Squeezed(Tail(shape))
    ELSE <<Head(shape)>> \o Squeezed(Tail(shape))

\* atype(data): an array of basedim axes and, if the data have one axis
\* more, frames along the last; data of fewer axes get axes of length 1
\* after their own
Constructed(basedim, shape) ==
    IF Len(shape) > basedim + 1 THEN Raised("ValueError")
    ELSE IF Len(shape) = basedim + 1
    THEN Gives([baseshape |-> SubSeq(shape, 1, basedim), nframes |-> shape[basedim + 1]])
    ELSE Gives([baseshape |-> Pad(shape, basedim, 1), nframes |-> 1])

\* lines 200-283: the array read from a file as an atype of basedim axes,
\* with the position its data was read at
LoadOutcome(file, basedim) ==
    LET shape == Read(file, 4, 16)
        id == Read(file, 20, 4)
        dof == Read(file, 24, 4)
        valid == Read(file, 28, 2) # 0
        unused == IF valid THEN 254 - 60 ELSE 254
        at == 30 + (IF valid THEN 60 ELSE 0) + unused
        fdt == DtypeFromId(id)
        count == shape[1] * shape[2] * shape[3] * shape[4]
        after == at + count * ItemSize(fdt)
        arr == Constructed(basedim, Squeezed(shape))
    IN  IF fdt = NoDtype THEN Raised("NotImplementedError")
        ELSE IF ~arr.ok THEN arr
        ELSE Gives([shape |-> shape, id |-> id, dof |-> dof, valid |-> valid,
                    baseshape |-> arr.val.baseshape, nframes |-> arr.val.nframes,
                    voxsize |-> IF valid THEN Read(file, 30, 12) ELSE <<>>,
                    rotation |-> IF valid THEN FromColumnMajor(Read(file, 42, 36)) ELSE <<>>,
                    center2 |-> IF valid THEN Read(file, 78, 12) ELSE <<>>,
                    at |-> at, aligned |-> Aligned(file, at, count * ItemSize(fdt)),
                    values |-> IF Aligned(file, at, count * ItemSize(fdt))
                               THEN Read(file, at, count * ItemSize(fdt)) ELSE <<>>,
                    fov |-> IF Aligned(file, after + 16, 4) THEN Read(file, after + 16, 4)
                            ELSE 0,
                    meta |-> ReadTags(file, after + 20,
                                      [history |-> <<>>, pedir |-> <<>>, fieldstrength |-> 0,
                                       stray |-> FALSE])])

\* load(filename, atype) of the file the last save wrote, as the type of
\* array that was saved
Load ==
    LET out == LoadOutcome(disk.content, IF img.image THEN 3 ELSE 1)
    IN  /\ ret.op = "save" /\ ret.ok
        /\ ret' = [op |-> "load", self |-> disk.content, ok |-> out.ok, err |-> out.err,
                   obj |-> 0, arg |-> NoArg, val |-> out.val]
        /\ UNCHANGED <<affs, bufs, img, disk, label>>

Dtypes == {"bool", "uint8", "int8", "int16", "uint16", "int32", "uint32", "int64", "uint64",
           "float16", "float32", "float64", "complex64"}

\* two values every dtype holds
Sample == <<Num(1), Num(0)>>

\* -2^31 - 1, -2^31, -7, 2^31 - 1 and 2^31
EdgeValues == {<<-32769, 65535>>, <<-32768, 0>>, Num(-7), <<32767, 65535>>, <<32768, 0>>}

\* an overlay of two points
Overlay(dtype, values, history) ==
    [image |-> FALSE, dtype |-> dtype, shape |-> <<2>>, values |-> values, geom |-> NoGeom,
     pedir |-> <<>>, history |-> history]

\* a volume of 2x1x1 voxels of size 1x2x3 whose first two axes are swapped
Scan(dtype, values, pedir) ==
    [image |-> TRUE, dtype |-> dtype, shape |-> <<2, 1, 1>>, values |-> values,
     geom |-> Geom(<<2, 1, 1>>, <<1, 2, 3>>, G2.rotation, <<2, 0, 5>>),
     pedir |-> pedir, history |-> <<>>]

\* a float32 volume of nframes frames whose values are 1, 2, ... in
\* column-major order
Frames(baseshape, nframes) ==
    LET count == baseshape[1] * baseshape[2] * baseshape[3] * nframes
    IN  [image |-> TRUE, dtype |-> "float32",
         shape |-> IF nframes = 1 THEN baseshape ELSE baseshape \o <<nframes>>,
         values |-> [i \in 1..count |-> Num(i)],
         geom |-> Geom(baseshape, <<1, 2, 3>>, G2.rotation, <<2, 0, 5>>),
         pedir |-> <<>>, history |-> <<>>]

MaxFrames == 3

RoundTripVolumes ==
    {Frames(baseshape, nframes) :
        baseshape \in {<<2, 2, 2>>, <<2, 1, 2>>, <<1, 2, 1>>, <<2, 2, 1>>, <<1, 1, 1>>},
        nframes \in 1..MaxFrames}

\* the records a file may hold after its field of view
Records ==
    {Tagged("history", <<"a">>), Tagged("history", <<"b", "c">>), Tagged("pedir", Unknown),
     Tagged("pedir", <<"R", "O", "W">>), Tagged("other", <<"x", "y", "z">>),
     <<Chunk("tag", 12, [tag |-> "fieldstrength", length |-> 4]), Chunk("fieldstrength", 4, 3)>>}

MaxRecords == 3

\* the sequences of up to n records, each as its chunks
RECURSIVE Streams(_)
Streams(n) ==
    IF n = 0 THEN {<<>>}
    ELSE Streams(n - 1) \cup {s \o r : s \in Streams(n - 1), r \in Records}

\* a file of a uint8 volume of two voxels, followed by the records
Found(records) ==
    [exists |-> TRUE,
     content |-> SubSeq(HeaderAndData(Scan("uint8", Sample, <<>>), 0), 1, 15) \o records]

\* a file that is at the path before the save
Earlier == Found(<<>>)

Histories == {<<<<"a">>, <<"b", "c">>, <<"a">>>>, <<<<>>, <<"a">>>>,
              <<<<"c", "a", "f", "eacute">>>>, <<<<"eacute", "a">>, <<"b">>>>}

MGHArrays ==
    {Overlay(dtype, Sample, <<>>) : dtype \in Dtypes}
    \cup {Scan(dtype, Sample, <<>>) : dtype \in Dtypes}
    \cup {Overlay("int64", <<a, b>>, <<<<"c", "p">>, <<"m">>>>) : a, b \in EdgeValues}
    \cup {Scan("int64", <<a, Num(-7)>>, <<"R", "O", "W">>) : a \in EdgeValues}
    \cup RoundTripVolumes
    \cup {Overlay("uint8", Sample, history) : history \in Histories}
    \cup {Scan("uint8", Sample, pedir) : pedir \in {Unknown, <<"C", "O", "L">>}}

InitMGH ==
    /\ affs = <<>>
    /\ bufs = <<>>
    /\ \/ img \in MGHArrays /\ disk \in {NoFile, Earlier}
       \/ img = Scan("uint8", Sample, <<>>) /\ disk \in {Found(s) : s \in Streams(MaxRecords) \ {<<>>}}
    /\ label = NoLabel
    /\ ret = [op |-> "none", self |-> NoImage, ok |-> TRUE, err |-> "", obj |-> 0,
              arg |-> NoArg, val |-> NoArg]

\* load(filename, Volume) of a file that was found at the path
LoadFound ==
    LET out == LoadOutcome(disk.content, 3)
    IN  /\ ret.op = "none" /\ disk.exists
        /\ ret' = [op |-> "found", self |-> disk.content, ok |-> out.ok, err |-> out.err,
                   obj |-> 0, arg |-> NoArg, val |-> out.val]
        /\ UNCHANGED <<affs, bufs, img, disk, label>>

NextMGH == Save \/ Load \/ LoadFound

SpecMGH == InitMGH /\ [][NextMGH]_vars

\* the position of the chunk of a field in a file, -1 if it has none
Where(file, field) ==
    IF \E i \in 1..Len(file) : file[i].f = field
    THEN Size(file, (CHOOSE i \in 1..Len(file) : file[i].f = field) - 1)
    ELSE -1

\* C18: a saved file has version 1 in its first 4 bytes and 1 as its degrees
\* of freedom; its data start at byte 284 = 4 + 16 + 4 + 4 + 2 + 254 with or
\* without a geometry, and load reads them from there
C18_DataAtFixedOffset ==
    /\ ret.op = "save" /\ ret.ok =>
           /\ Read(ret.val, 0, 4) = 1
           /\ Where(ret.val, "dof") = 24 /\ Read(ret.val, 24, 4) = 1
           /\ Where(ret.val, "valid") = 28
           /\ Read(ret.val, 28, 2) = (IF ret.self.image THEN 1 ELSE 0)
           /\ Where(ret.val, "data") = 4 + 16 + 4 + 4 + 2 + 254
           /\ Where(ret.val, "data") = 284
    /\ ret.op = "load" =>
           /\ ret.ok
           /\ ret.val.at = 284
           /\ ret.val.at = Where(ret.self, "data")
           /\ ret.val.aligned
           /\ ret.val.values = Read(ret.self, Where(ret.self, "data"),
                                   Len(img.values) * ItemSize(DtypeFromId(ret.val.id)))
           /\ ret.val.dof = 1

C18_Witness == ret.op = "load" /\ ret.ok /\ ret.val.valid /\ ret.val.at = 284

C18_WitnessNoGeometry == ret.op = "load" /\ ret.ok /\ ~ret.val.valid /\ ret.val.at = 284

\* the id the layout gives a dtype, -1 for a dtype it does not hold
IdOf(dtype) ==
    CASE dtype \in {"uint8", "bool"} -> 0
      [] dtype \in {"int32", "int64"} -> 1
      [] dtype \in {"float16", "float32", "float64"} -> 3
      [] dtype = "int16" -> 4
      [] dtype = "uint16" -> 10
      [] OTHER -> -1

\* C19: save writes the id 0 for uint8 and bool, 1 for int32 and for int64
\* narrowed to int32, 3 for every floating dtype, 4 for int16 and 10 for
\* uint16; it raises ValueError for every other dtype; and load accepts
\* the id of every file save wrote
C19_DtypeIdOnWrite ==
    /\ ret.op = "save" =>
           /\ ret.ok => /\ IdOf(ret.self.dtype) # -1
                        /\ Read(ret.val, Where(ret.val, "dtype_id"), 4) = IdOf(ret.self.dtype)
                        /\ Where(ret.val, "dtype_id") = 20
                        /\ DtypeFromId(IdOf(ret.self.dtype)) # NoDtype
           /\ IdOf(ret.self.dtype) = -1 => ~ret.ok /\ ret.err = "ValueError"
           /\ IdOf(ret.self.dtype) # -1 /\ ret.self.dtype # "int64" => ret.ok
    /\ ret.op = "load" => ret.ok /\ ret.val.id = IdOf(img.dtype)

C19_Witness ==
    /\ ret.op = "load" /\ ret.ok /\ img.dtype = "float64" /\ ret.val.id = 3

C19_WitnessRefused ==
    /\ ret.op = "save" /\ ~ret.ok /\ ret.self.dtype = "uint32"

\* C20: save of an int64 array succeeds exactly when every value is within
\* -2^31 .. 2^31 - 1; it then writes the values unchanged as int32, 4 bytes
\* each, and otherwise raises ValueError
C20_Int64Narrowing ==
    ret.op = "save" /\ ret.self.dtype = "int64" =>
        LET values == ret.self.values
            within == \A i \in 1..Len(values) :
                          /\ values[i][1] >= -32768
                          /\ values[i][1] <= 32767
        IN  /\ ret.ok <=> within
            /\ ret.ok => /\ Read(ret.val, 20, 4) = 1
                         /\ Aligned(ret.val, 284, 4 * Len(values))
                         /\ Read(ret.val, 284, 4 * Len(values)) = values
            /\ ~ret.ok => ret.err = "ValueError" /\ ret.val = NoArg

C20_Witness ==
    /\ ret.op = "save" /\ ret.ok /\ ret.self.dtype = "int64"
    /\ ret.self.values = <<<<-32768, 0>>, <<32767, 65535>>>>

C20_WitnessBeyond ==
    /\ ret.op = "save" /\ ~ret.ok /\ ret.self.dtype = "int64"
    /\ ret.self.values = <<<<32767, 65535>>, <<32768, 0>>>>

\* the frames of an array
FramesOf(arr) == IF Len(arr.shape) = 4 THEN arr.shape[4] ELSE 1

\* what load gives has the shape, the frames, the values and the geometry
\* of the image that was saved
SameAsSaved ==
    /\ ret.ok
    /\ ret.val.baseshape = img.geom.shape
    /\ ret.val.nframes = FramesOf(img)
    /\ ret.val.values = img.values
    /\ ret.val.voxsize = img.geom.voxsize
    /\ ret.val.rotation = img.geom.rotation
    /\ ret.val.center2 = img.geom.center2

\* C21: a volume that is saved and loaded back as a volume has the spatial
\* shape, the frames, the values, the voxel size, the rotation and the
\* center it had, whatever its shape and frames
C21_RoundTrip == ret.op = "load" /\ img.image => SameAsSaved

\* C21, as far as it holds: a volume without a spatial axis of length 1, and
\* a volume of one frame whose axes of length 1 are its last, come back as
\* they were saved
C21_RoundTripWithoutUnitAxes ==
    /\ ret.op = "load" /\ img.image
    /\ \/ \A a \in 1..3 : img.geom.shape[a] # 1
       \/ /\ FramesOf(img) = 1
          /\ \A a \in 1..2 : img.geom.shape[a] = 1 => img.geom.shape[a + 1] = 1
    => SameAsSaved

\* the texts of the history records of a file from its chunk i on, in the
\* order they are in the file
RECURSIVE HistoryIn(_, _)
HistoryIn(file, i) ==
    IF i > Len(file) THEN <<>>
    ELSE IF file[i].f = "tag" /\ file[i].v.tag = "history"
    THEN <<file[i + 1].v>> \o HistoryIn(file, i + 2)
    ELSE HistoryIn(file, i + 1)

\* the text of the last phase-encode record of a file that is not UNKNOWN,
\* from its chunk i down; none if there is none
RECURSIVE PedirIn(_, _)
PedirIn(file, i) ==
    IF i < 1 THEN <<>>
    ELSE IF file[i].f = "tag" /\ file[i].v.tag = "pedir" /\ file[i + 1].v # Unknown
    THEN file[i + 1].v
    ELSE PedirIn(file, i - 1)

\* every text of every history is ASCII
Ascii(history) == \A i \in 1..Len(history) : Utf8Len(history[i]) = Len(history[i])

\* what load gives after a save has the history and the phase-encode
\* direction of what was saved
SavedTagsLoaded ==
    /\ ret.ok /\ ~ret.val.meta.stray
    /\ ret.val.meta.history = img.history
    /\ img.pedir \in {<<>>, Unknown} <=> ret.val.meta.pedir = <<>>
    /\ img.pedir \notin {<<>>, Unknown} => ret.val.meta.pedir = img.pedir

\* C22: load reads the records of a file in their order up to its end: the
\* history is the texts of the history records in that order, a
\* phase-encode record of UNKNOWN and a record of another tag set nothing;
\* and what load gives after a save has the history that was saved, in its
\* order, and no phase-encode direction if none was saved
C22_TagsInOrder ==
    /\ ret.op = "found" =>
           /\ ret.ok /\ ~ret.val.meta.stray
           /\ ret.val.meta.history = HistoryIn(ret.self, 1)
           /\ ret.val.meta.pedir = PedirIn(ret.self, Len(ret.self) - 1)
    /\ ret.op = "load" => SavedTagsLoaded

\* C22, as far as it holds: the same of files that were found, and after a
\* save of a history whose every text is ASCII
C22_AsciiTagsInOrder ==
    /\ ret.op = "found" =>
           /\ ret.ok /\ ~ret.val.meta.stray
           /\ ret.val.meta.history = HistoryIn(ret.self, 1)
           /\ ret.val.meta.pedir = PedirIn(ret.self, Len(ret.self) - 1)
    /\ ret.op = "load" /\ Ascii(img.history) => SavedTagsLoaded

\* C30: a save that is rejected writes nothing: the file that was at the
\* path is as it was, and no file is there if none was
C30_RejectedSaveWritesNothing ==
    ret.op = "save" /\ ~ret.ok => disk = ret.arg

\* C30, as the code has it: after a save that is rejected an empty file is
\* at the path, whatever was there before
C30_RejectedSaveLeavesEmptyFile ==
    ret.op = "save" /\ ~ret.ok => disk.exists /\ disk.content = <<>>

(***************************************************************************)
(* The geometry of a FramedImage, framed.py 19-74.  Every image is made by *)
(* the constructor, which assigns geom; new() and the constructors of Slice*)
(* and Volume that the operations end with go through it.                  *)
(***************************************************************************)
\* ImageGeometry(shape=shape): unit voxels, no rotation, centred at the origin
DefaultGeometry(shape) == Geom(shape, <<1, 1, 1>>, IdRot, <<0, 0, 0>>)

\* ImageGeometry.reshape(shape): a geometry of that shape with the voxel
\* size, the rotation and the center of g
GeometryReshape(g, shape) ==
    IF g.shape = shape THEN g
    ELSE IF "rotation" \in DOMAIN g THEN [g EXCEPT !.shape = shape]
    ELSE Geom(shape, g.voxsize, RotationOf(g), Center2Of(g))

\* a setter that stores the reshaped geometry without copying it: the
\* object that was passed, if it has the shape already
GeomSetterNoCopy(baseshape, geometry) ==
    [stored |-> IF geometry = NoGeom THEN DefaultGeometry(baseshape)
                ELSE GeometryReshape(geometry, baseshape),
     passed |-> geometry,
     shared |-> geometry # NoGeom /\ geometry.shape = baseshape]

\* lines 56-62: the geometry the setter stores, the object that was passed
\* as it is after the call, and whether the two are one object
GeomSetter(baseshape, geometry) ==
    [stored |-> IF geometry = NoGeom THEN DefaultGeometry(baseshape)
                ELSE GeometryReshape(geometry, baseshape),
     passed |-> geometry,
     shared |-> FALSE]

\* lines 37-46: self.__class__(data=data, geometry=geometry), the image
\* that an operation returns
New(val) == Image(val.shape, val.nframes, val.data, GeomSetter(val.shape, val.geom).stored)

\* Volume(data, geometry) or Slice(data, geometry)
ConstructImage(shape, nframes, geometry) ==
    LET set == GeomSetter(shape, geometry)
    IN  /\ ret.op = "none"
        /\ img' = Image(shape, nframes,
                        IF nframes = 1 THEN Coded(shape) ELSE CodedFrames(shape), set.stored)
        /\ ret' = [op |-> "construct", self |-> NoImage, ok |-> TRUE, err |-> "", obj |-> 0,
                   arg |-> [given |-> geometry, passed |-> set.passed, shared |-> set.shared],
                   val |-> NoArg]
        /\ UNCHANGED <<affs, bufs, disk, label>>

\* img.geom = geometry
AssignGeom(geometry) ==
    LET set == GeomSetter(img.shape, geometry)
    IN  /\ ret.op \in {"none", "construct"}
        /\ img.set
        /\ img' = [img EXCEPT !.geom = set.stored]
        /\ ret' = [op |-> "geom", self |-> img, ok |-> TRUE, err |-> "", obj |-> 0,
                   arg |-> [given |-> geometry, passed |-> set.passed, shared |-> set.shared],
                   val |-> NoArg]
        /\ UNCHANGED <<affs, bufs, disk, label>>

ImageOps == {"crop", "resize", "resample_like", "transform", "reorient", "reshape", "conform"}

\* the image the last operation returned takes the place of the image
Adopt ==
    /\ ret.op \in ImageOps /\ ret.ok /\ ret.val.kind \in {"Slice", "Volume"}
    /\ img' = New(ret.val)
    /\ ret' = [op |-> "adopt", self |-> img, ok |-> TRUE, err |-> "", obj |-> 0,
               arg |-> ret.op, val |-> NoArg]
    /\ UNCHANGED <<affs, bufs, disk, label>>

\* geometries of the shapes 2x2x2, 2x4x2, 3x2 and 2x3x4, and none
GeomInputs ==
    {NoGeom, G1, G2, Flat.geom,
     MatrixGeometry(<<2, 3, 4>>, OrientedMatrix(<<"P", "I", "R">>), <<1, 2, 3>>)}

GeomImages ==
    {Oblique, TwoFrames, Flat, Volume(<<2, 3, 2>>, 1), Volume(<<2, 2, 2>>, 2),
     Typed(Cubic(<<2, 2, 2>>, 2, <<"L", "I", "A">>), "float32")}

\* index expressions that keep the three axes, drop one and drop two
GeomCrops(shape) ==
    IF Len(shape) = 2
    THEN {<<Slc(0, 2, 1), Slc(1, 2, 1)>>, <<At(0), Slc(0, 2, 1)>>}
    ELSE {<<Slc(0, 2, 1), Slc(1, 2, 1), Slc(0, 1, 1)>>, <<Slc(0, 2, 1), Slc(0, 2, 1), At(1)>>,
          <<At(0), Slc(0, 2, 1), Slc(0, 2, 1)>>, <<At(0), At(1), Slc(0, 2, 1)>>}

(***************************************************************************)
(* SpecGeom: an image is constructed or given, a geometry is assigned to   *)
(* it, one of the operations is called on it and what that returns takes   *)
(* its place.                                                              *)
(***************************************************************************)
InitGeom ==
    /\ img \in GeomImages \cup {NoImage}
    /\ disk = NoFile
    /\ label = NoLabel
    /\ affs = [a \in ObjIds |-> FreeObj]
    /\ bufs = [b \in BufIds |-> FreeBuf]
    /\ ret = Call("none", 0, TRUE, "", 0, NoArg)

\* an operation is called on an image that no operation has been called on
Ready == ret.op \in {"none", "construct", "geom"} /\ img.set

NextGeom ==
    \/ \E shape \in {<<2, 2, 2>>, <<3, 2>>}, nframes \in {1, 2}, geometry \in GeomInputs :
          ~img.set /\ ConstructImage(shape, nframes, geometry)
    \/ \E geometry \in GeomInputs : AssignGeom(geometry)
    \/ \E ix \in GeomCrops(img.shape) :
          Ready /\ "rotation" \in DOMAIN img.geom /\ Crop(ix)
    \/ \E tg \in {G1, G2}, copy \in BOOLEAN :
          Ready /\ "rotation" \in DOMAIN img.geom /\ ResampleLike("img", tg, copy, 0)
    \/ \E resample \in BOOLEAN :
          /\ Ready /\ "rotation" \in DOMAIN img.geom
          /\ TransformImage(NewAffine(R44, G1, G2, "world"), FALSE, resample)
    \/ \E o \in {<<"L", "I", "A">>, <<"P", "I", "R">>} :
          Ready /\ "vox2world" \in DOMAIN img.geom /\ Reorient("img", o, TRUE)
    \/ \E a \in {x \in ConformArguments : x.dtype = NoDtype /\ x.copy} :
          Ready /\ "vox2world" \in DOMAIN img.geom /\ "dtype" \in DOMAIN img /\ Conform(a)
    \/ \E voxsize \in {<<1>>, <<2, 1, 1>>}, copy \in BOOLEAN : Ready /\ Resize(voxsize, copy)
    \/ \E shape \in {<<2, 2, 2>>, <<3, 2, 4>>}, copy \in BOOLEAN : Ready /\ Reshape(shape, copy)
    \/ Adopt

SpecGeom == InitGeom /\ [][NextGeom]_vars

\* C23: the geometry of every image has the spatial shape of the image,
\* whatever the number of its frames; the setter stores an object of its own
\* and leaves the object it was passed as it was
C23_GeomShapeIsBaseShape ==
    /\ img.set => img.geom.shape = img.shape
    /\ ret.op \in {"construct", "geom"} =>
           /\ ~ret.arg.shared
           /\ ret.arg.passed = ret.arg.given
           /\ ret.arg.given # NoGeom => /\ img.geom.voxsize = ret.arg.given.voxsize
                                        /\ RotationOf(img.geom) = RotationOf(ret.arg.given)
                                        /\ Center2Of(img.geom) = Center2Of(ret.arg.given)

C23_Witness ==
    /\ ret.op = "geom" /\ img.nframes = 2 /\ ret.arg.given = G2 /\ img.shape = <<2, 2, 2>>
    /\ img.geom.shape = <<2, 2, 2>> /\ ret.arg.passed.shape = <<2, 4, 2>>

C23_WitnessAdopted ==
    /\ ret.op = "adopt" /\ ret.arg = "crop" /\ img.basedim = 2 /\ ret.self.basedim = 3
    /\ img.nframes = 2

\* ---------------------------------------------------------------------
\* compose_affine and Affine.decompose (transform/affine.py).  Angles
\* are whole degrees that are multiples of 90, where every sine and
\* cosine is -1, 0 or 1, so that all the arithmetic is exact.

Cos90(a) == CASE a % 360 = 0 -> 1 [] a % 360 = 180 -> -1 [] OTHER -> 0

Sin90(a) == CASE a % 360 = 90 -> 1 [] a % 360 = 270 -> -1 [] OTHER -> 0

\* angles_to_rotation_matrix: one angle gives the 2D rotation, three
\* angles give rx @ ry @ rz
AnglesToRotationMatrix(rotation) ==
    IF Len(rotation) = 1
    THEN <<<<Cos90(rotation[1]), -Sin90(rotation[1])>>,
           <<Sin90(rotation[1]), Cos90(rotation[1])>>>>
    ELSE MatMul(MatMul(
           <<<<1, 0, 0>>,
             <<0, Cos90(rotation[1]), Sin90(rotation[1])>>,
             <<0, -Sin90(rotation[1]), Cos90(rotation[1])>>>>,
           <<<<Cos90(rotation[2]), 0, Sin90(rotation[2])>>,
             <<0, 1, 0>>,
             <<-Sin90(rotation[2]), 0, Cos90(rotation[2])>>>>),
           <<<<Cos90(rotation[3]), Sin90(rotation[3]), 0>>,
             <<-Sin90(rotation[3]), Cos90(rotation[3]), 0>>,
             <<0, 0, 1>>>>)

\* np.arctan2(y, x) in degrees, for y and x of equal size or one of them 0
Arctan2(y, x) ==
    CASE y = 0 /\ x >= 0 -> 0
      [] y = 0 /\ x < 0 -> 180
      [] y > 0 /\ x = 0 -> 90
      [] y < 0 /\ x = 0 -> -90
      [] y > 0 /\ x > 0 -> 45
      [] y > 0 /\ x < 0 -> 135
      [] y < 0 /\ x > 0 -> -45
      [] OTHER -> -135

\* np.sqrt of 0 or 1
Sqrt01(n) == n

\* rotation_matrix_to_angles
RotationMatrixToAngles(m) ==
    IF Rows(m) = 2
    THEN <<Arctan2(m[2][1], m[2][2])>>
    ELSE <<Arctan2(m[2][3], m[3][3]),
           Arctan2(m[1][3], Sqrt01(m[2][3] * m[2][3] + m[3][3] * m[3][3])),
           Arctan2(m[1][2], m[1][1])>>

\* the (nd + 1) square mat that is the identity but for its upper
\* left block
Embedded(block, nd) ==
    [i \in 1..(nd + 1) |-> [j \in 1..(nd + 1) |->
        IF i <= nd /\ j <= nd THEN block[i][j] ELSE IF i = j THEN 1 ELSE 0]]

ShearMatrix(shear, nd) ==
    [i \in 1..(nd + 1) |-> [j \in 1..(nd + 1) |->
        CASE i = j -> 1
          [] i = 1 /\ j = 2 -> shear[1]
          [] nd = 3 /\ i = 1 /\ j = 3 -> shear[2]
          [] nd = 3 /\ i = 2 /\ j = 3 -> shear[3]
          [] OTHER -> 0]]

\* compose_affine: matrix = T @ R @ Z @ S
ComposeAffine(translation, rotation, scale, shear, nd) ==
    IF nd \notin {2, 3} THEN Raised("ValueError")
    ELSE Gives(MatMul(MatMul(MatMul(
           [i \in 1..(nd + 1) |-> [j \in 1..(nd + 1) |->
               IF i = j THEN 1
               ELSE IF j = nd + 1 /\ i <= nd THEN translation[i] ELSE 0]],
           Embedded(AnglesToRotationMatrix(rotation), nd)),
           Embedded([i \in 1..nd |-> [j \in 1..nd |->
               IF i = j THEN scale[i] ELSE 0]], nd)),
           ShearMatrix(shear, nd)))

\* the length of a column with a single entry that is not zero
ColumnNorm(a, j) == SumTo([i \in 1..Rows(a) |-> Abs(a[i][j])], Rows(a))

\* np.linalg.qr of a mat with columns along the axes: column j of q is
\* column j of the mat by its length, up to the sign that the
\* factorization happens to give it, and r = transpose(q) @ mat
QrQ(a, signs) ==
    [i \in 1..Rows(a) |-> [j \in 1..Cols(a) |->
        signs[j] * (a[i][j] \div ColumnNorm(a, j))]]

QrR(a, signs) ==
    [j \in 1..Cols(a) |-> [k \in 1..Cols(a) |->
        IF k < j THEN 0
        ELSE SumTo([i \in 1..Rows(a) |-> QrQ(a, signs)[i][j] * a[i][k]], Rows(a))]]

LinearPart(mat, nd) == [i \in 1..nd |-> [j \in 1..nd |-> mat[i][j]]]

\* decompose, lines 232-236: scale = abs(diag(r)) and p the signs of diag(r)
ScaleOf(r) == [i \in 1..Rows(r) |-> Abs(r[i][i])]

SignsOf(r) ==
    [i \in 1..Rows(r) |-> [j \in 1..Rows(r) |->
        IF i = j THEN r[i][i] \div ScaleOf(r)[i] ELSE 0]]

\* lines 241-246: shear_mat = (p @ r) / scale by row, and its entries
\* above the diagonal
ShearOf(r) ==
    LET sm == [i \in 1..Rows(r) |-> [j \in 1..Rows(r) |->
                  MatMul(SignsOf(r), r)[i][j] \div ScaleOf(r)[i]]]
    IN  IF Rows(r) = 2 THEN <<sm[1][2]>> ELSE <<sm[1][2], sm[1][3], sm[2][3]>>

\* Affine.decompose of the mat, signs being those np.linalg.qr gives
\* the columns of q
Decomposed(mat, signs) ==
    [translation |-> [i \in 1..(Rows(mat) - 1) |-> mat[i][Rows(mat)]],
     rotation |-> RotationMatrixToAngles(
                      MatMul(QrQ(LinearPart(mat, Rows(mat) - 1), signs),
                             SignsOf(QrR(LinearPart(mat, Rows(mat) - 1), signs)))),
     scale |-> ScaleOf(QrR(LinearPart(mat, Rows(mat) - 1), signs)),
     shear |-> ShearOf(QrR(LinearPart(mat, Rows(mat) - 1), signs))]

Compose(translation, rotation, scale, shear, nd) ==
    LET out == ComposeAffine(translation, rotation, scale, shear, nd)
    IN  /\ ret.op = "none"
        /\ ret' = [op |-> "compose", self |-> NoImage, ok |-> out.ok, err |-> out.err,
                   obj |-> 0,
                   arg |-> [translation |-> translation, rotation |-> rotation,
                            scale |-> scale, shear |-> shear],
                   val |-> out.val]
        /\ UNCHANGED <<affs, bufs, img, disk, label>>

Decompose(signs) ==
    /\ ret.op = "compose" /\ ret.ok
    /\ DOMAIN signs = 1..(Rows(ret.val) - 1)
    /\ ret' = [op |-> "decompose", self |-> ret.val, ok |-> TRUE, err |-> "", obj |-> 0,
               arg |-> ret.arg, val |-> Decomposed(ret.val, signs)]
    /\ UNCHANGED <<affs, bufs, img, disk, label>>

RightAngles == {-180, -90, 0, 90, 180}

Translations(nd) == {[i \in 1..nd |-> 0], [i \in 1..nd |-> 3 * i - 5]}

Scales(nd) == {[i \in 1..nd |-> 1], [i \in 1..nd |-> i + 1]}

Rotations(nd) ==
    IF nd = 2 THEN {<<a>> : a \in RightAngles}
    ELSE {<<a, b, c>> : a \in RightAngles, b \in RightAngles, c \in RightAngles}

NoShear(nd) == IF nd = 2 THEN <<0>> ELSE <<0, 0, 0>>

QrSigns(nd) == [1..nd -> {-1, 1}]

InitCompose ==
    /\ img = NoImage
    /\ disk = NoFile
    /\ label = NoLabel
    /\ affs = [a \in ObjIds |-> FreeObj]
    /\ bufs = [b \in BufIds |-> FreeBuf]
    /\ ret = Call("none", 0, TRUE, "", 0, NoArg)

NextCompose ==
    \/ \E nd \in {2, 3} : \E t \in Translations(nd), r \in Rotations(nd),
                               s \in Scales(nd) :
          Compose(t, r, s, NoShear(nd), nd)
    \/ \E nd \in {2, 3} : \E signs \in QrSigns(nd) : Decompose(signs)

SpecCompose == InitCompose /\ [][NextCompose]_vars

\* whether two tuples of angles in degrees name the same angles
SameAngles(r, s) ==
    Len(r) = Len(s) /\ \A i \in 1..Len(r) : (r[i] - s[i]) % 360 = 0

\* C24: decomposing a composed affine gives back the translation, the
\* rotation angles (up to whole turns), the scale and the zero shear it
\* was composed from
C24_DecomposeInvertsCompose ==
    ret.op = "decompose" =>
        /\ ret.val.translation = ret.arg.translation
        /\ SameAngles(ret.val.rotation, ret.arg.rotation)
        /\ ret.val.scale = ret.arg.scale
        /\ ret.val.shear = ret.arg.shear

\* what does hold: translation, scale and shear come back always, and the
\* angles come back in 2D, and in 3D when the second angle is 0; when the
\* second angle is a half turn the angles that come back are others that
\* give the same rotation
C24_DecomposeInvertsComposeWithinQuarterTurn ==
    ret.op = "decompose" =>
        /\ ret.val.translation = ret.arg.translation
        /\ ret.val.scale = ret.arg.scale
        /\ ret.val.shear = ret.arg.shear
        /\ Len(ret.arg.rotation) = 1 \/ ret.arg.rotation[2] = 0
              => SameAngles(ret.val.rotation, ret.arg.rotation)
        /\ Len(ret.arg.rotation) = 1 \/ Cos90(ret.arg.rotation[2]) # 0
              => AnglesToRotationMatrix(ret.val.rotation)
                    = AnglesToRotationMatrix(ret.arg.rotation)

\* a half turn about the second axis is decomposed as half turns about the
\* first and the third
C24_WitnessHalfTurn ==
    /\ ret.op = "decompose"
    /\ ret.arg.rotation = <<0, 180, 0>>
    /\ ret.val.rotation = <<180, 0, 180>>

\* ---------------------------------------------------------------------
\* LabelElement (core/labels.py).  A color channel is a number of tenths,
\* so that 1.0 is 10 and 255 is 2550; an argument is a record that tells
\* None from a sequence, and a name is the tuple of its characters.

NoValue == [given |-> FALSE, value |-> <<>>]

Value(v) == [given |-> TRUE, value |-> v]

\* line 48: clip(0, 255).astype(np.uint8).astype(np.float64) of a channel
ClippedChannel(c) ==
    IF c < 0 THEN 0 ELSE IF c > 2550 THEN 2550 ELSE (c \div 10) * 10

\* lines 47-48: the first three channels clipped, the others as they are
Rgba(value) ==
    [i \in 1..Len(value) |-> IF i <= 3 THEN ClippedChannel(value[i]) ELSE value[i]]

\* the color setter, lines 40-49: what is raised and what _color is then.
\* With None _color is set to [0, 0, 0] and len(None) raises; with three
\* elements line 44 reads the local color that is assigned at line 47
ColorSetter(old, color) ==
    CASE ~color.given ->
           [ok |-> FALSE, err |-> "TypeError", color |-> <<0, 0, 0>>]
      [] color.given /\ Len(color.value) = 3 ->
           [ok |-> FALSE, err |-> "UnboundLocalError", color |-> old]
      [] color.given /\ Len(color.value) \notin {3, 4} ->
           [ok |-> FALSE, err |-> "ValueError", color |-> old]
      [] OTHER ->
           [ok |-> TRUE, err |-> "", color |-> Rgba(color.value)]

\* the name setter, line 31
NameSetter(name) == IF name.given THEN name.value ELSE <<>>

\* LabelElement(name, color), lines 8-20: no element is there when the
\* color setter raises
ConstructLabel(name, color) ==
    LET out == ColorSetter(<<>>, color)
    IN  /\ ~label.set
        /\ ret.op = "none"
        /\ label' = IF out.ok
                    THEN [set |-> TRUE, name |-> NameSetter(name), color |-> out.color]
                    ELSE label
        /\ ret' = [op |-> "label", self |-> label, ok |-> out.ok, err |-> out.err,
                   obj |-> 0, arg |-> color, val |-> NoArg]
        /\ UNCHANGED <<affs, bufs, img, disk>>

\* element.color = color
SetColor(color) ==
    LET out == ColorSetter(label.color, color)
    IN  /\ label.set
        /\ ret.op \in {"label", "name"}
        /\ label' = [label EXCEPT !.color = out.color]
        /\ ret' = [op |-> "color", self |-> label, ok |-> out.ok, err |-> out.err,
                   obj |-> 0, arg |-> color, val |-> NoArg]
        /\ UNCHANGED <<affs, bufs, img, disk>>

\* element.name = name
SetName(name) ==
    /\ label.set
    /\ ret.op = "label"
    /\ label' = [label EXCEPT !.name = NameSetter(name)]
    /\ ret' = [op |-> "name", self |-> label, ok |-> TRUE, err |-> "",
               obj |-> 0, arg |-> name, val |-> NoArg]
    /\ UNCHANGED <<affs, bufs, img, disk>>

Channels == {-50, 1287, 3000}

Alphas == {0, 5, 10}

Colors ==
    {NoValue}
    \cup {Value(<<r, g, b>>) : r \in Channels, g \in Channels, b \in {1287}}
    \cup {Value(<<r, g, b, a>>) : r \in Channels, g \in {0, 2550}, b \in {1287}, a \in Alphas}
    \cup {Value(<<>>), Value(<<10>>), Value(<<0, 2550>>), Value(<<0, 0, 0, 10, 10>>)}

Names == {NoValue, Value(<<"w", "m">>)}

InitLabel ==
    /\ img = NoImage
    /\ disk = NoFile
    /\ label = NoLabel
    /\ affs = [a \in ObjIds |-> FreeObj]
    /\ bufs = [b \in BufIds |-> FreeBuf]
    /\ ret = Call("none", 0, TRUE, "", 0, NoArg)

NextLabel ==
    \/ \E name \in Names, color \in Colors : ConstructLabel(name, color)
    \/ \E color \in Colors : SetColor(color)
    \/ \E name \in Names : SetName(name)

SpecLabel == InitLabel /\ [][NextLabel]_vars

\* a color of three or four channels, or none
Accepted(color) == ~color.given \/ Len(color.value) \in {3, 4}

IsRgba(color) ==
    /\ Len(color) = 4
    /\ \A i \in 1..3 : color[i] >= 0 /\ color[i] <= 2550

\* C25: a color of three or four channels, or none, is accepted and the
\* element then holds four channels, the first three within 0..255 and the
\* fourth 1.0 when three were given; a color of another length is refused
C25_ColorIsRgba ==
    ret.op \in {"label", "color"} =>
        IF Accepted(ret.arg)
        THEN /\ ret.ok
             /\ label.set
             /\ IsRgba(label.color)
             /\ ret.arg.given /\ Len(ret.arg.value) = 3 => label.color[4] = 10
        ELSE ~ret.ok /\ label = ret.self

\* what does hold: four channels are accepted and stored with the first
\* three clipped to whole numbers within 0..255, every other color is
\* refused, and after None the element holds [0, 0, 0]
C25_OnlyRgbaIsAccepted ==
    ret.op \in {"label", "color"} =>
        /\ ret.ok <=> ret.arg.given /\ Len(ret.arg.value) = 4
        /\ ret.ok => label.set /\ IsRgba(label.color)
                       /\ label.color[4] = ret.arg.value[4]
        /\ ~ret.ok /\ ret.arg.given => label = ret.self
        /\ ~ret.ok /\ ~ret.arg.given /\ label.set => label.color = <<0, 0, 0>>

\* an element was given three channels
C25_WitnessRgb ==
    /\ ret.op = "color" /\ ret.err = "UnboundLocalError"
    /\ Len(ret.arg.value) = 3

\* an element was constructed with no color
C25_WitnessNone ==
    ret.op = "label" /\ ret.err = "TypeError" /\ ~ret.arg.given

\* vox2world.transform(v) for the vox2world matrix mat
WorldOfVoxel(mat, v) ==
    [r \in 1..3 |-> mat[r][1] * v[1] + mat[r][2] * v[2] + mat[r][3] * v[3] + mat[r][4]]

\* the voxel axis of orientation code o that runs along the world axis of
\* letter c
AxisAlong(o, c) == CHOOSE k \in 1..3 : LetterAxis(o[k]) = LetterAxis(c)

\* C26: the volume reorient returns has the orientation asked for, its
\* shape is the shape of the receiver with the axes permuted as the codes
\* say, and every voxel value is at the world coordinate it was at in the
\* receiver
C26_ReorientKeepsWorld ==
    (ret.op = "reorient" /\ ret.self.image.basedim = 3) =>
        /\ ret.ok
        /\ RotationMatrixToOrientation(ret.val.geom.vox2world)
              = UpperCase(ret.arg.orientation)
        /\ \A j \in 1..3 :
              ret.val.shape[j] = ret.self.image.shape[
                  AxisAlong(RotationMatrixToOrientation(ret.self.image.geom.vox2world),
                            Upper(ret.arg.orientation[j]))]
        /\ \A v \in Voxels(ret.self.image.shape) :
              \E w \in Voxels(ret.val.shape) :
                  /\ ret.val.data[w] = ret.self.image.data[v]
                  /\ WorldOfVoxel(ret.val.geom.vox2world, w)
                        = WorldOfVoxel(ret.self.image.geom.vox2world, v)

\* a 2x3x4 volume in RAS went to PIR: the axes turn in a cycle and two of
\* them are flipped
C26_Witness ==
    /\ ret.op = "reorient" /\ ret.ok /\ ret.val.how = "new"
    /\ ret.self.via = <<>>
    /\ RotationMatrixToOrientation(ret.self.image.geom.vox2world) = <<"R", "A", "S">>
    /\ ret.arg.orientation = <<"P", "I", "R">>
    /\ ret.val.shape = <<3, 4, 2>>

\* the place in the result of voxel 0 of the receiver along an axis that
\* goes from old to new voxels: floor(delta) when the axis grows, and
\* ceil(delta), which is negative, when it shrinks, delta = (new - old) / 2
LowSide(old, new) ==
    IF new >= old THEN (new - old) \div 2 ELSE 0 - ((old - new) \div 2)

\* the voxel of the receiver that is at voxel w of the result
Source(w, old, new) ==
    [a \in 1..3 |-> w[a] - LowSide(old[a], new[a])]

\* C27: reshape of a volume of one frame returns a volume of the target
\* shape, in which every voxel of the receiver that is retained has its
\* value and its world coordinate and every other voxel is zero, the low
\* side of each axis being padded by floor(delta) or cropped by
\* -ceil(delta) voxels
C27_ReshapePadsAndCrops ==
    Reshaped =>
        /\ ret.ok
        /\ ret.val.shape = ret.arg.shape
        /\ \A w \in Voxels(ret.val.shape) :
              IF Source(w, ret.self.shape, ret.arg.shape) \in Voxels(ret.self.shape)
              THEN /\ ret.val.data[w]
                         = ret.self.data[Source(w, ret.self.shape, ret.arg.shape)]
                   /\ WorldOfVoxel(ret.val.geom.vox2world, w)
                         = WorldOfVoxel(ret.self.geom.vox2world,
                                        Source(w, ret.self.shape, ret.arg.shape))
              ELSE ret.val.data[w] = <<0>>

\* what does hold: the same for a volume without an axis of length 1, and
\* ValueError for a volume with one unless the target is its own shape
C27_ReshapeRefusesUnitAxes ==
    Reshaped =>
        IF (\E a \in 1..3 : ret.self.shape[a] = 1) /\ ret.arg.shape # ret.self.shape
        THEN ~ret.ok /\ ret.err = "ValueError"
        ELSE /\ ret.ok
             /\ ret.val.shape = ret.arg.shape
             /\ \A w \in Voxels(ret.val.shape) :
                   IF Source(w, ret.self.shape, ret.arg.shape) \in Voxels(ret.self.shape)
                   THEN /\ ret.val.data[w]
                              = ret.self.data[Source(w, ret.self.shape, ret.arg.shape)]
                        /\ WorldOfVoxel(ret.val.geom.vox2world, w)
                              = WorldOfVoxel(ret.self.geom.vox2world,
                                             Source(w, ret.self.shape, ret.arg.shape))
                   ELSE ret.val.data[w] = <<0>>

\* a 3x1x2 volume is reshaped to 3x2x2
C27_WitnessUnitAxis ==
    /\ Reshaped /\ ~ret.ok
    /\ ret.self.shape = <<3, 1, 2>> /\ ret.arg.shape = <<3, 2, 2>>

\* an axis grows by an odd number, one shrinks by an odd number to length 1
C27_WitnessOdd ==
    /\ Reshaped /\ ret.ok
    /\ ret.self.shape = <<3, 2, 4>> /\ ret.arg.shape = <<4, 2, 1>>

\* C28: a header-only transform by an affine that lacks its source, its
\* target or its space fails and returns nothing, and the image is as it
\* was
C28_HeaderTransformNeedsContext ==
    (HeaderOnly /\ ret.arg.affine # NoAffine /\ ~FullContext) =>
        /\ ~ret.ok
        /\ ret.val = NoArg
        /\ img = ret.self

\* what does hold: it fails unless the affine is in world space without a
\* target and its source is the geometry of the image, and then it returns
\* the image with the matrix of the affine composed to its vox2world
C28_HeaderTransformWithOwnSource ==
    (HeaderOnly /\ ret.arg.affine # NoAffine /\ ~FullContext) =>
        /\ img = ret.self
        /\ ret.ok =>
              /\ ret.arg.affine.space = "world"
              /\ ret.arg.affine.source = ret.self.geom
              /\ ret.arg.affine.target = NoGeom
              /\ ret.val.geom.vox2world
                    = MatMul(ret.arg.affine.matrix, Vox2World(ret.self.geom))
        /\ (ret.arg.affine.source = NoGeom \/ ret.arg.affine.space = NoSpace) => ~ret.ok

\* an affine with a source and no target has transformed the header
C28_WitnessSourceOnly ==
    /\ HeaderOnly /\ ret.ok
    /\ ret.arg.affine.source = G1 /\ ret.arg.affine.target = NoGeom
    /\ ret.arg.affine.matrix = R44

\* an affine with a target and no source was refused by convert
C28_WitnessTargetOnly ==
    /\ HeaderOnly /\ ~ret.ok /\ ret.err = "RuntimeError"
    /\ ret.arg.affine.source = NoGeom /\ ret.arg.affine.target # NoGeom

\* the last call was transform() of a volume without an affine, and not a
\* header-only transform with a displacement field
WithoutAffine ==
    /\ ret.op = "transform" /\ ret.self.basedim = 3
    /\ ret.arg.affine = NoAffine
    /\ ret.arg.resample \/ ~ret.arg.disp

\* C29: transform() of a volume without an affine, with a displacement
\* field or with nothing at all, returns an image with the geometry of the
\* volume
C29_TransformWithoutAffine ==
    WithoutAffine => ret.ok /\ ret.val.geom = ret.self.geom

\* what does hold: the call fails on the name target_geom, which nothing
\* was assigned to
C29_TransformWithoutAffineFails ==
    WithoutAffine => ~ret.ok /\ ret.err = "UnboundLocalError" /\ ret.val = NoArg

\* transform(disp=field) of the volume of two frames
C29_WitnessDisp ==
    WithoutAffine /\ ret.arg.disp /\ ret.arg.resample /\ ret.self.nframes = 2

\* transform(resample=False) with neither affine nor displacement field
C29_WitnessNothing ==
    WithoutAffine /\ ~ret.arg.disp /\ ~ret.arg.resample

====
